---------------------------- MODULE Spec2Model ----------------------------
(***************************************************************************)
(* Contact resolution and message-channel selection of the contact         *)
(* messenger bot: the channel derivation functions of Contact and          *)
(* PhoneNumber (api/models.py) and the ordered rule dispatch of Messaging  *)
(* (api/services/messaging/service.py) over the email and text transports. *)
(*                                                                         *)
(* A Python str is a sequence of one-character strings; a part whose       *)
(* characters are never inspected (a domain, a template's fixed text) is   *)
(* one element of the sequence.  Python's None is NoneStr where a str is   *)
(* expected and None where an object is expected.                          *)
(***************************************************************************)
EXTENDS Integers, Sequences, FiniteSets, TLC

VARIABLES
    settings_email,   \* settings.email is configured (EmailSettings or None)
    settings_text,    \* settings.text: "none", "noauth" (no auth block), "auth"
    groups,           \* Messaging.groups: frozenset of casefolded names, {} for None
    rules,            \* the rule list captured by Messaging._create_send_message
    contacts,         \* the contact list handed to send_messages
    dry_run,          \* the dry_run argument of send_messages
    pc,               \* position of the run
    idx,              \* position of the for loop of send_messages in contacts
    rule_idx,         \* position of the for loop of apply in rules
    send_dates,       \* apply's send_dates of the current contact
    saluation,        \* apply's saluation of the current contact
    sent,             \* every call of a transport's send_message, with its outcome
    attempts,         \* every rule call of apply, with its outcome
    applied,          \* the positions of the contacts apply was called for, in call order
    op,               \* the function the last step of a derivation or cache run called
    result,           \* what that call returned
    directory,        \* what the People API answers: profile, connections, contactGroups
    cache_file,       \* the file at the cache path: <<>> when absent, else <<its content>>
    instances,        \* the Contacts objects: whether a cache path was given, and _cache
    saved,            \* the contact list of the last _save_cache that wrote one, and by whom
    templates,        \* the template lists of api.messages, by date-event type
    zipcode,          \* the ZipCode object: whether it has a cache file, _cache, _is_dirty
    zipcode_file,     \* the ZipCode's cache file: <<>> when absent, else <<its content>>
    lookups           \* every remote lookup of a ZipCode, with its outcome, in call order

cacheVars == <<directory, cache_file, instances, saved>>

zipVars == <<zipcode, zipcode_file, lookups>>

vars == <<settings_email, settings_text, groups, rules, contacts, dry_run, pc,
          idx, rule_idx, send_dates, saluation, sent, attempts, applied, op, result,
          directory, cache_file, instances, saved, templates, zipcode, zipcode_file,
          lookups>>

-----------------------------------------------------------------------------
(* Bounds of the model *)

MaxContacts == 2
MaxNumbers == 3
MaxEmails == 3

-----------------------------------------------------------------------------
(* Python values *)

None == [py |-> "None"]
NoneStr == <<"None">>

Range(s) == {s[i] : i \in 1..Len(s)}

SeqsUpTo(S, n) == UNION {[1..k -> S] : k \in 0..n}

\* next(iter(s), default)
first_or(s, default) == IF s = <<>> THEN default ELSE Head(s)

LowerOf ==
    [c \in {"T", "R", "U", "E", "F", "A", "L", "S", "M", "H", "O"} |->
        CASE c = "T" -> "t" [] c = "R" -> "r" [] c = "U" -> "u" [] c = "E" -> "e"
          [] c = "F" -> "f" [] c = "A" -> "a" [] c = "L" -> "l" [] c = "S" -> "s"
          [] c = "M" -> "m" [] c = "H" -> "h" [] c = "O" -> "o"]

\* str.casefold
casefold(s) == [i \in 1..Len(s) |-> IF s[i] \in DOMAIN LowerOf THEN LowerOf[s[i]] ELSE s[i]]

Digits == {"0", "1", "2", "3", "4", "5", "6", "7", "8", "9"}
Whitespace == {" ", "\t", "\n"}

-----------------------------------------------------------------------------
(* api/constants.py, api/utils.py *)

TRUTHY == {<<"t", "r", "u", "e">>, <<"1">>}

\* constants.TODAY: the date of the day the module was imported
TODAY == [year |-> 2030, month |-> 3, day |-> 15]

AllDigits(s) == \A i \in 1..Len(s) : s[i] \in Digits

\* re "^(?:\+1\s?)?\d{10}$": $ also matches before one trailing newline
US_CANOICAL_PHONE_NUMBER(number) ==
    LET n == Len(number)
        core == IF n > 0 /\ number[n] = "\n" THEN SubSeq(number, 1, n - 1) ELSE number
        m == Len(core)
    IN  \/ m = 10 /\ AllDigits(core)
        \/ /\ m = 12
           /\ core[1] = "+" /\ core[2] = "1"
           /\ AllDigits(SubSeq(core, 3, 12))
        \/ /\ m = 13
           /\ core[1] = "+" /\ core[2] = "1" /\ core[3] \in Whitespace
           /\ AllDigits(SubSeq(core, 4, 13))

is_us_phone_number(number) == US_CANOICAL_PHONE_NUMBER(number)

\* is_truthy comparing the value as written, without casefold
is_truthy_as_written(value, default) ==
    IF value = NoneStr THEN default ELSE value \in TRUTHY

is_truthy(value, default) ==
    IF value = NoneStr THEN default ELSE casefold(value) \in TRUTHY

\* frozenset(s.casefold() for s in collection), None when it has no element.
\* The argument is <<>> for None and <<list>> for a list; the result None is the
\* empty set, which is as falsy and which the function never returns as a set
to_frozen_set(collection) ==
    IF collection = <<>> THEN {}
    ELSE {casefold(collection[1][i]) : i \in 1..Len(collection[1])}

\* dict.get(key), the value being a str
dict_get(d, key) == IF key \in DOMAIN d THEN d[key] ELSE NoneStr

-----------------------------------------------------------------------------
(* api/models.py *)

Country_US == "US"

BOT_SALUATION == "BOT_SALUATION"
BOT_OPT_OUT == "BOT_OPT_OUT"

BIRTHDAY == "BIRTHDAY"
ANNIVERSARY == "ANNIVERSARY"

PhoneNumber(number, is_primary, is_bot) ==
    [number |-> number, is_primary |-> is_primary, is_bot |-> is_bot]

EmailAddress(address, is_primary, is_phone, is_bot) ==
    [address |-> address, is_primary |-> is_primary, is_phone |-> is_phone,
     is_bot |-> is_bot]

DateTuple(type, year, month, day) ==
    [type |-> type, date |-> [year |-> year, month |-> month, day |-> day]]

\* is_today comparing the year as well
is_today_same_year(dt, test) ==
    test.year = dt.date.year /\ test.month = dt.date.month /\ test.day = dt.date.day

\* is_today comparing the day of the month only
is_today_day_only(dt, test) == test.day = dt.date.day

\* DateTuple.is_today
is_today(dt, test) == test.month = dt.date.month /\ test.day = dt.date.day

\* PhoneNumber.country
country(n) == IF is_us_phone_number(n.number) THEN Country_US ELSE "None"

\* str.replace("-", "")
strip_dashes(s) == SelectSeq(s, LAMBDA c : c # "-")

\* s[-10:]
last10(s) == IF Len(s) <= 10 THEN s ELSE SubSeq(s, Len(s) - 9, Len(s))

\* PhoneNumber.shortnumber
shortnumber(n) ==
    IF country(n) = Country_US THEN last10(strip_dashes(n.number)) ELSE n.number

\* MobileCarrier.get_carriers: the concrete subclasses, in definition order
Carriers ==
    << [name |-> "ATT", country |-> Country_US, domain |-> "txt.att.net", enabled |-> FALSE],
       [name |-> "GoogleFi", country |-> Country_US, domain |-> "msg.fi.google.com", enabled |-> TRUE],
       [name |-> "TMobile", country |-> Country_US, domain |-> "tmomail.com", enabled |-> TRUE],
       [name |-> "Verison", country |-> Country_US, domain |-> "vtext.com", enabled |-> TRUE] >>

\* USMobileCarrier.get_email: the address as a list of zero or one str
get_email(carrier, n) ==
    IF country(n) = carrier.country
    THEN << shortnumber(n) \o <<"@", carrier.domain>> >>
    ELSE <<>>

\* USMobileCarrier.is_carrier: address.endswith("@" + domain), the domain being
\* one element of the address
is_carrier(carrier, address) ==
    /\ Len(address) >= 2
    /\ address[Len(address) - 1] = "@"
    /\ address[Len(address)] = carrier.domain

\* EmailAddress.get_mobile_carrier: the name of the first carrier of
\* get_carriers() that is_carrier(address), "None" when there is none
get_mobile_carrier(e) ==
    LET matching == SelectSeq(Carriers, LAMBDA carrier : is_carrier(carrier, e.address))
    IN  IF matching = <<>> THEN "None" ELSE matching[1].name

\* EmailAddress.is_enabled
is_enabled(e) ==
    IF e.is_phone /\ get_mobile_carrier(e) # "None"
    THEN \E k \in 1..Len(Carriers) :
            Carriers[k].name = get_mobile_carrier(e) /\ Carriers[k].enabled
    ELSE TRUE

\* the generator of get_email_addresses over every carrier, enabled or not
RECURSIVE carrier_emails_of_all_carriers(_, _)
carrier_emails_of_all_carriers(cs, n) ==
    IF cs = <<>> THEN <<>>
    ELSE get_email(Head(cs), n) \o carrier_emails_of_all_carriers(Tail(cs), n)

RECURSIVE carrier_emails(_, _)
carrier_emails(cs, n) ==
    IF cs = <<>> THEN <<>>
    ELSE (IF Head(cs).enabled THEN get_email(Head(cs), n) ELSE <<>>)
         \o carrier_emails(Tail(cs), n)

\* PhoneNumber.get_email_addresses
get_email_addresses(n) ==
    LET addresses == carrier_emails(Carriers, n)
    IN  [k \in 1..Len(addresses) |->
            EmailAddress(addresses[k], n.is_primary, TRUE, n.is_bot)]

\* saluation preferring the nickname to the custom field
contact_saluation_nickname_first(c) ==
    LET custom == dict_get(c.metadata, BOT_SALUATION)
    IN  IF c.nickname # NoneStr /\ c.nickname # <<>> THEN c.nickname
        ELSE IF custom # NoneStr /\ custom # <<>> THEN custom
        ELSE c.given_name

\* Contact.saluation: metadata.get(BOT_SALUATION) or nickname or given_name
contact_saluation(c) ==
    LET custom == dict_get(c.metadata, BOT_SALUATION)
    IN  IF custom # NoneStr /\ custom # <<>> THEN custom
        ELSE IF c.nickname # NoneStr /\ c.nickname # <<>> THEN c.nickname
        ELSE c.given_name

\* Contact.opt_out_messages
opt_out_messages(c) == is_truthy(dict_get(c.metadata, BOT_OPT_OUT), FALSE)

\* Contact.is_member
is_member(c, gs) ==
    gs \cap {casefold(c.groups[k]) : k \in 1..Len(c.groups)} # {}

\* Contact.get_primary_mobile_email_address
get_primary_mobile_email_address(c) ==
    LET mobile_email_addresses == SelectSeq(c.email_addresses, LAMBDA n : n.is_phone)
        primary_mobile_email_address ==
            first_or(SelectSeq(mobile_email_addresses, LAMBDA n : n.is_primary), None)
    IN  IF mobile_email_addresses = <<>> THEN None
        ELSE IF primary_mobile_email_address # None THEN primary_mobile_email_address
        ELSE mobile_email_addresses[1]

\* get_primary_email_address falling back to the first address of the list
get_primary_email_address_or_first(c) ==
    LET bot_email_address ==
            first_or(SelectSeq(c.email_addresses, LAMBDA n : n.is_bot), None)
        primary_email_address ==
            first_or(SelectSeq(c.email_addresses, LAMBDA n : n.is_primary), None)
    IN  IF bot_email_address # None THEN bot_email_address
        ELSE IF primary_email_address # None THEN primary_email_address
        ELSE first_or(c.email_addresses, None)

\* Contact.get_primary_email_address
get_primary_email_address(c) ==
    LET bot_email_address ==
            first_or(SelectSeq(c.email_addresses, LAMBDA n : n.is_bot), None)
    IN  IF bot_email_address # None THEN bot_email_address
        ELSE first_or(SelectSeq(c.email_addresses, LAMBDA n : n.is_primary), None)

\* get_us_mobile_number choosing among all the numbers, US or not
get_us_mobile_number_of_any_country(c) ==
    LET bot_mobile_number ==
            first_or(SelectSeq(c.mobile_numbers, LAMBDA n : n.is_bot), None)
        primary_mobile_number ==
            first_or(SelectSeq(c.mobile_numbers, LAMBDA n : n.is_primary), None)
    IN  IF bot_mobile_number # None THEN bot_mobile_number
        ELSE IF primary_mobile_number # None THEN primary_mobile_number
        ELSE first_or(c.mobile_numbers, None)

\* Contact.get_us_mobile_number
get_us_mobile_number(c) ==
    LET us_mobile_numbers ==
            SelectSeq(c.mobile_numbers, LAMBDA n : country(n) = Country_US)
        bot_mobile_number ==
            first_or(SelectSeq(us_mobile_numbers, LAMBDA n : n.is_bot), None)
        primary_mobile_number ==
            first_or(SelectSeq(us_mobile_numbers, LAMBDA n : n.is_primary), None)
    IN  IF bot_mobile_number # None THEN bot_mobile_number
        ELSE IF primary_mobile_number # None THEN primary_mobile_number
        ELSE first_or(us_mobile_numbers, None)

\* Contact.get_all_mobile_email_addresses; next(..., None) is a list or None,
\* both falsy when empty, so the empty list stands for None
get_all_mobile_email_addresses(c) ==
    LET mobile_email_addresses ==
            [k \in 1..Len(c.mobile_numbers) |->
                [n |-> c.mobile_numbers[k],
                 ea |-> get_email_addresses(c.mobile_numbers[k])]]
        bot == SelectSeq(mobile_email_addresses, LAMBDA p : p.n.is_bot)
        bot_mobile_email_addresses == IF bot = <<>> THEN <<>> ELSE bot[1].ea
        primary == SelectSeq(mobile_email_addresses, LAMBDA p : p.n.is_primary)
        primary_email_addresses == IF primary = <<>> THEN <<>> ELSE primary[1].ea
    IN  IF mobile_email_addresses = <<>> THEN <<>>
        ELSE IF bot_mobile_email_addresses # <<>> THEN bot_mobile_email_addresses
        ELSE IF primary_email_addresses # <<>> THEN primary_email_addresses
        ELSE mobile_email_addresses[1].ea


-----------------------------------------------------------------------------
(* api/messages: the template lists of the two date-event types *)

GIVEN_NAME == "{GIVEN_NAME}"

BIRTHDAY_MESSAGES == << <<"Happy Birthday ", GIVEN_NAME, "!">> >>

BIRTHDAY_SUBJECTS ==
    << <<"Happy Birthday ", GIVEN_NAME>>, <<GIVEN_NAME, ", it is your birthday">> >>

ANNIVERSARY_MESSAGES == << <<"Happy Anniversary ", GIVEN_NAME, "!">> >>

ANNIVERSARY_SUBJECTS == << <<"Happy Anniversary ", GIVEN_NAME>> >>

\* str.format(GIVEN_NAME=given_name)
RECURSIVE format(_, _)
format(template, given_name) ==
    IF template = <<>> THEN <<>>
    ELSE (IF Head(template) = GIVEN_NAME THEN given_name ELSE <<Head(template)>>)
         \o format(Tail(template), given_name)

\* DateType._message_fmt: the templates int(_RANDOM.uniform(0, len)) can pick;
\* none when the list is empty (IndexError)
message_fmt(mesages) == {mesages[k] : k \in 1..Len(mesages)}

\* The lists of api.messages.birthday and api.messages.anniversary as shipped
ShippedTemplates ==
    [birthday |-> [MESSAGES |-> BIRTHDAY_MESSAGES, SUBJECTS |-> BIRTHDAY_SUBJECTS],
     anniversary |-> [MESSAGES |-> ANNIVERSARY_MESSAGES, SUBJECTS |-> ANNIVERSARY_SUBJECTS]]

\* DateType.subject: the strings it can return
subject(type, given_name) ==
    {format(t, given_name) :
        t \in message_fmt(IF type = BIRTHDAY THEN templates.birthday.SUBJECTS
                          ELSE templates.anniversary.SUBJECTS)}

\* DateType.message: the strings it can return
message(type, given_name) ==
    {format(t, given_name) :
        t \in message_fmt(IF type = BIRTHDAY THEN templates.birthday.MESSAGES
                          ELSE templates.anniversary.MESSAGES)}

-----------------------------------------------------------------------------
(* api/services/messaging/email.py, text.py *)

email_is_supported == settings_email

text_is_supported == settings_text = "auth"

\* email.send_message going on to _send_message whatever dry_run is
email_send_message_ignoring_dry_run(dry) ==
    IF ~email_is_supported THEN {"not_supported"} ELSE {"delivered", "raised"}

\* email.send_message: how a call can end.  "not_supported" and "dry_run" return
\* before an SMTP session is opened; _send_message delivers or raises
email_send_message(dry) ==
    IF ~email_is_supported THEN {"not_supported"}
    ELSE IF dry THEN {"dry_run"}
    ELSE {"delivered", "raised"}

\* text.send_message: how a call can end.  After the is_supported() guard and
\* the dry-run return, the assert fails when settings.text is set and
\* _get_client raises ValueError when it is not
text_send_message(dry) ==
    IF text_is_supported THEN {"not_supported"}
    ELSE IF dry THEN {"dry_run"}
    ELSE {"raised"}

-----------------------------------------------------------------------------
(* api/services/messaging/service.py *)

\* Messaging.supported_protocols
supported_protocols ==
    (IF email_is_supported THEN <<"email">> ELSE <<>>)
    \o (IF text_is_supported THEN <<"text">> ELSE <<>>)

\* _create_send_message_rules appending the text rule first
create_send_message_rules_text_first ==
    (IF text_is_supported THEN <<"text_rule">> ELSE <<>>)
    \o (IF email_is_supported
        THEN <<"email_mobile_rule", "email_mobile_wide_rule", "email_rule">> ELSE <<>>)

\* _create_send_message_rules appending every rule, supported or not
create_send_message_rules_unconditional ==
    <<"email_mobile_rule", "text_rule", "email_mobile_wide_rule", "email_rule">>

\* Messaging._create_send_message_rules
create_send_message_rules ==
    (IF email_is_supported THEN <<"email_mobile_rule">> ELSE <<>>)
    \o (IF text_is_supported THEN <<"text_rule">> ELSE <<>>)
    \o (IF email_is_supported THEN <<"email_mobile_wide_rule", "email_rule">> ELSE <<>>)

\* Messaging._filter_contacts
filter_contacts(cs) == SelectSeq(cs, LAMBDA c : is_member(c, groups))

\* self._filter_contacts(contacts) taking the non-members out of the list it
\* is given
contacts_filtered_in_place(cs) == filter_contacts(cs)

\* self._filter_contacts(contacts), the statement of send_messages and of
\* dry_run: the list contacts is bound to afterwards.  _filter_contacts builds
\* a new list, which the statement drops
contacts_after_filter(cs) == cs

\* What Messaging.dry_run logs: the positions of the contacts it logs "Will
\* send notifications" for
RECURSIVE notifications(_, _)
notifications(cs, k) ==
    IF k > Len(cs) THEN <<>>
    ELSE LET contact == cs[k]
             channels ==
                 (IF get_primary_mobile_email_address(contact) # None THEN 1 ELSE 0)
                 + (IF get_us_mobile_number(contact) # None THEN 1 ELSE 0)
                 + (IF get_primary_email_address(contact) # None THEN 1 ELSE 0)
                 + (IF get_all_mobile_email_addresses(contact) # <<>> THEN 1 ELSE 0)
         IN  (IF opt_out_messages(contact) \/ contact.dates = <<>> \/ channels = 0
              THEN <<>> ELSE <<k>>) \o notifications(cs, k + 1)

\* _email_mobile_rule passing dates[0].subject(saluation) as _email_rule does
email_mobile_rule_with_subject(c) ==
    LET mobile_email_address == get_primary_mobile_email_address(c)
    IN  [to |-> mobile_email_address, found |-> mobile_email_address # None,
         kind |-> "email", subject |-> TRUE]

\* The channel each rule resolves, whether it is truthy, the transport it calls
\* and whether it passes a subject
email_mobile_rule(c) ==
    LET mobile_email_address == get_primary_mobile_email_address(c)
    IN  [to |-> mobile_email_address, found |-> mobile_email_address # None,
         kind |-> "email", subject |-> FALSE]

text_rule(c) ==
    LET us_mobile_number == get_us_mobile_number(c)
    IN  [to |-> us_mobile_number, found |-> us_mobile_number # None,
         kind |-> "text", subject |-> FALSE]

email_mobile_wide_rule(c) ==
    LET all_mobile_email_addresses == get_all_mobile_email_addresses(c)
    IN  [to |-> all_mobile_email_addresses, found |-> all_mobile_email_addresses # <<>>,
         kind |-> "email", subject |-> FALSE]

\* _email_rule calling email.send_message without a subject, as the other rules do
email_rule_without_subject(c) ==
    LET email_address == get_primary_email_address(c)
    IN  [to |-> email_address, found |-> email_address # None,
         kind |-> "email", subject |-> FALSE]

email_rule(c) ==
    LET email_address == get_primary_email_address(c)
    IN  [to |-> email_address, found |-> email_address # None,
         kind |-> "email", subject |-> TRUE]

\* How one transport call of a rule can end
send_message(kind, dry) ==
    IF kind = "email" THEN email_send_message(dry) ELSE text_send_message(dry)

\* The for loop of a rule over send_dates from position k: every way it can go,
\* as the transport calls made and whether the loop left by an exception.  The
\* arguments are evaluated before the call, so a template lookup that raises
\* makes no call
\* the for loop of a rule left after the first of send_dates
RECURSIVE rule_loop_first_event_only(_, _, _, _, _, _)
rule_loop_first_event_only(name, r, c, dates, sal, k) ==
    IF k > Len(dates) \/ k > 1 THEN {[calls |-> <<>>, raised |-> FALSE]}
    ELSE
      LET bodies == message(dates[k].type, sal)
          subjects == IF r.subject THEN subject(dates[k].type, sal) ELSE {NoneStr}
      IN  IF bodies = {} \/ subjects = {} THEN {[calls |-> <<>>, raised |-> TRUE]}
          ELSE UNION {
                 LET call == [contact |-> c, rule |-> name, kind |-> r.kind, event |-> k,
                              to |-> r.to, body |-> b, subject |-> s, outcome |-> o]
                 IN  IF o = "raised" THEN {[calls |-> <<call>>, raised |-> TRUE]}
                     ELSE {[calls |-> <<call>> \o rest.calls, raised |-> rest.raised] :
                              rest \in rule_loop_first_event_only(name, r, c, dates, sal, k + 1)}
                 : b \in bodies, s \in subjects, o \in send_message(r.kind, dry_run)}

\* the for loop of a rule making every transport call a second time
RECURSIVE rule_loop_sending_twice(_, _, _, _, _, _)
rule_loop_sending_twice(name, r, c, dates, sal, k) ==
    IF k > Len(dates) THEN {[calls |-> <<>>, raised |-> FALSE]}
    ELSE
      LET bodies == message(dates[k].type, sal)
          subjects == IF r.subject THEN subject(dates[k].type, sal) ELSE {NoneStr}
      IN  IF bodies = {} \/ subjects = {} THEN {[calls |-> <<>>, raised |-> TRUE]}
          ELSE UNION {
                 LET call == [contact |-> c, rule |-> name, kind |-> r.kind, event |-> k,
                              to |-> r.to, body |-> b, subject |-> s, outcome |-> o]
                 IN  IF o = "raised" THEN {[calls |-> <<call>>, raised |-> TRUE]}
                     ELSE {[calls |-> <<call, call>> \o rest.calls, raised |-> rest.raised] :
                              rest \in rule_loop_sending_twice(name, r, c, dates, sal, k + 1)}
                 : b \in bodies, s \in subjects, o \in send_message(r.kind, dry_run)}

RECURSIVE rule_loop(_, _, _, _, _, _)
rule_loop(name, r, c, dates, sal, k) ==
    IF k > Len(dates) THEN {[calls |-> <<>>, raised |-> FALSE]}
    ELSE
      LET bodies == message(dates[k].type, sal)
          subjects == IF r.subject THEN subject(dates[k].type, sal) ELSE {NoneStr}
      IN  IF bodies = {} \/ subjects = {} THEN {[calls |-> <<>>, raised |-> TRUE]}
          ELSE UNION {
                 LET call == [contact |-> c, rule |-> name, kind |-> r.kind, event |-> k,
                              to |-> r.to, body |-> b, subject |-> s, outcome |-> o]
                 IN  IF o = "raised" THEN {[calls |-> <<call>>, raised |-> TRUE]}
                     ELSE {[calls |-> <<call>> \o rest.calls, raised |-> rest.raised] :
                              rest \in rule_loop(name, r, c, dates, sal, k + 1)}
                 : b \in bodies, s \in subjects, o \in send_message(r.kind, dry_run)}

\* the for loop of send_messages left after the first contact
next_contact_leaves_loop(i) == Len(contacts) + 1

\* for contact in contacts: the position after the contact at position i
next_contact(i) == i + 1

\* apply going on to the next rule whatever the rule returned
next_rule_always_tried(outcome) == TRUE

\* apply, after a rule call: the for loop goes on to the next rule when the rule
\* returned False or raised, and apply returns True when the rule returned True
next_rule_tried(outcome) == outcome \in {"returned_false", "raised"}

-----------------------------------------------------------------------------
(* api/services/zipcode.py.  A timezone is the name of its zone, "None" for
   None; the dict _cache is the set of its items <<key, tz>> *)

\* zip_code.split("-")[0]
RECURSIVE before_dash(_)
before_dash(s) ==
    IF s = <<>> \/ Head(s) = "-" THEN <<>> ELSE <<Head(s)>> \o before_dash(Tail(s))

\* ZipCode._lookup_timezone when the request is answered: the zone the remote
\* service and the timezone finder give for the zip code, "None" when they
\* give none
lookup_timezone(zip_code) ==
    IF before_dash(zip_code) = <<"1", "0", "0", "2", "2">> THEN "America/New_York"
    ELSE "None"

cached_keys(zc) == {item[1] : item \in zc.cache}

cached_timezone(zc, key) == (CHOOSE item \in zc.cache : item[1] = key)[2]

\* get_timezone looking the timezone up whatever _cache holds
get_timezone_without_cache(zc, zip_code) ==
    LET key == <<Country_US, zip_code>>
        tz == lookup_timezone(zip_code)
    IN  [tz |-> tz,
         zipcode |-> [zc EXCEPT !.cache = {item \in @ : item[1] # key} \cup {<<key, tz>>},
                                !.is_dirty = TRUE],
         looked_up |-> <<[key |-> key, outcome |-> tz]>>]

\* ZipCode.get_timezone(Country.US, zip_code) with a lookup that is answered:
\* what it returns, the ZipCode afterwards and the lookup it made, if any
get_timezone(zc, zip_code) ==
    LET key == <<Country_US, zip_code>>
        tz == lookup_timezone(zip_code)
    IN  IF key \in cached_keys(zc)
        THEN [tz |-> cached_timezone(zc, key), zipcode |-> zc, looked_up |-> <<>>]
        ELSE [tz |-> tz,
              zipcode |-> [zc EXCEPT !.cache = @ \cup {<<key, tz>>}, !.is_dirty = TRUE],
              looked_up |-> <<[key |-> key, outcome |-> tz]>>]

\* The get_timezone calls of a pass, one after the other: the ZipCode
\* afterwards and the lookups made
RECURSIVE get_timezones(_, _)
get_timezones(zc, zip_codes) ==
    IF zip_codes = <<>> THEN [zipcode |-> zc, looked_up |-> <<>>]
    ELSE LET first == get_timezone(zc, Head(zip_codes))
             rest == get_timezones(first.zipcode, Tail(zip_codes))
         IN  [zipcode |-> rest.zipcode, looked_up |-> first.looked_up \o rest.looked_up]

\* ZipCode._save_cache: the JSON text, country by country
pack(cache) ==
    [c \in {item[1][1] : item \in cache} |->
        {<<item[1][2], item[2]>> : item \in {x \in cache : x[1][1] = c}}]

\* ZipCode._load_cache of a file
unpack(content) ==
    UNION {{<< <<c, entry[1]>>, entry[2] >> : entry \in content[c]} : c \in DOMAIN content}

\* ZipCode(cache_file): the object built on a cache path, or on none, file
\* being what the path holds
ZipCode(path, file) ==
    [cache_file |-> path,
     cache |-> IF path /\ file # <<>> THEN unpack(file[1]) ELSE {},
     is_dirty |-> FALSE]

-----------------------------------------------------------------------------
(* api/services/contacts.py: the directory fetch *)

\* The names api/constants.py defines (constants.py:1-19); reading any other
\* attribute of the module raises AttributeError
ConstantsNames ==
    {"MAX_RETRY", "HOME_LABEL", "PHONE_LABEL", "MOBILE_LABEL", "TODAY", "TRUTHY",
     "EMAIL_ADDRESS_LABELS", "MOBILE_LABELS", "APP_NAME"}

\* What reading constants.<name> raises
constants_attribute(name) == IF name \in ConstantsNames THEN "no" ELSE "AttributeError"

HOME_LABEL == <<"h", "o", "m", "e">>
PHONE_LABEL == <<"p", "h", "o", "n", "e">>
MOBILE_LABEL == <<"m", "o", "b", "i", "l", "e">>
EMAIL_ADDRESS_LABELS == {HOME_LABEL, MOBILE_LABEL, PHONE_LABEL}

\* How a call ended: with a value, or with an exception
Returned(value) == [raised |-> "no", value |-> <<value>>]
Raised(exception) == [raised |-> exception, value |-> <<>>]

\* str.strip
RECURSIVE lstrip(_)
lstrip(s) == IF s # <<>> /\ Head(s) \in Whitespace THEN lstrip(Tail(s)) ELSE s

RECURSIVE rstrip(_)
rstrip(s) ==
    IF s # <<>> /\ s[Len(s)] \in Whitespace THEN rstrip(SubSeq(s, 1, Len(s) - 1)) ELSE s

strip(s) == rstrip(lstrip(s))

\* str.split(" ")[0]
RECURSIVE first_token(_)
first_token(s) ==
    IF s = <<>> \/ Head(s) = " " THEN <<>> ELSE <<Head(s)>> \o first_token(Tail(s))

\* Contacts._get_name: <<>> for None, else <<given_name, display_name>>.  A
\* person is [names, nicknames, phoneNumbers, ...]; an absent key is the empty
\* list and an absent str is NoneStr
get_name(person) ==
    IF person.names = <<>> THEN <<>>
    ELSE LET n == person.names[1]
         IN  IF n.displayName = NoneStr THEN <<>>
             ELSE LET given_name == IF n.givenName = NoneStr
                                    THEN first_token(n.displayName) ELSE n.givenName
                  IN  <<strip(given_name), strip(n.displayName)>>

\* Contacts._get_nickname
get_nickname(person) ==
    LET primary_nicknames == SelectSeq(person.nicknames, LAMBDA n : n.primary)
    IN  IF primary_nicknames = <<>> THEN NoneStr ELSE strip(primary_nicknames[1].value)

\* The addresses of a person _get_home_addresses keeps
home_entries(person) ==
    SelectSeq(person.addresses,
              LAMBDA a : a.postalCode # NoneStr /\ a.postalCode # <<>>
                         /\ casefold(a.type) = HOME_LABEL)

\* _get_home_addresses calling get_timezone for the first address only of the
\* addresses of a person that have the same postal code
home_postal_codes_once(person) ==
    LET home == home_entries(person)
        first == SelectSeq([k \in 1..Len(home) |-> k],
                           LAMBDA k : \A j \in 1..(k - 1) :
                                         home[j].postalCode # home[k].postalCode)
    IN  [k \in 1..Len(first) |-> home[first[k]].postalCode]

\* The zip_code arguments of the get_timezone calls of _get_home_addresses, in
\* call order: one call for each address it keeps
home_postal_codes(person) ==
    LET home == home_entries(person)
    IN  [k \in 1..Len(home) |-> home[k].postalCode]

\* Contacts._get_home_addresses, zc being the ZipCode as the pass found it: the
\* answer of get_timezone for a postal code is the same at every call of a pass
get_home_addresses(person, zc) ==
    LET home == home_entries(person)
    IN  [k \in 1..Len(home) |->
            [postal_code |-> home[k].postalCode,
             tz |-> get_timezone(zc, home[k].postalCode).tz]]

\* Contacts._get_mobile_numbers: the test of the first entry reads
\* constants.BOT_LABEL
get_mobile_numbers(person) ==
    IF person.phoneNumbers = <<>> THEN Returned(<<>>)
    ELSE Raised(constants_attribute("BOT_LABEL"))

\* Contacts._get_email_addresses: an entry whose label is not one of
\* EMAIL_ADDRESS_LABELS is passed over; the first kept entry reads
\* constants.BOT_LABEL
get_contact_email_addresses(person) ==
    LET kept == SelectSeq(person.emailAddresses,
                          LAMBDA e : casefold(e.type) \in EMAIL_ADDRESS_LABELS)
    IN  IF kept = <<>> THEN Returned(<<>>)
        ELSE Raised(constants_attribute("BOT_LABEL"))

\* Contacts._convert_date; a date without a year has year 0 here
convert_date(date) ==
    [year |-> IF date.year = 0 THEN TODAY.year ELSE date.year,
     month |-> date.month, day |-> date.day]

\* Contacts._get_dates
get_dates(person) ==
    LET birthdays == SelectSeq(person.birthdays, LAMBDA bd : bd.primary)
        events == SelectSeq(person.events, LAMBDA e : e.type = "anniversary")
    IN  [k \in 1..Len(birthdays) |->
            [type |-> BIRTHDAY, date |-> convert_date(birthdays[k].date)]]
        \o [k \in 1..Len(events) |->
            [type |-> ANNIVERSARY, date |-> convert_date(events[k].date)]]

\* {ud["key"]: ud["value"] for ud in contact["userDefined"]}
user_defined(person) ==
    LET keys == {person.userDefined[k].key : k \in 1..Len(person.userDefined)}
        last(key) == CHOOSE k \in 1..Len(person.userDefined) :
                        /\ person.userDefined[k].key = key
                        /\ \A j \in (k + 1)..Len(person.userDefined) :
                              person.userDefined[j].key # key
    IN  [key \in keys |-> person.userDefined[last(key)].value]

\* Contacts._query_groups: the groups with members, built-in ones left out,
\* restricted to the interested ones ({} for None), sorted by name
RECURSIVE sorted_by_name(_)
sorted_by_name(gs) ==
    IF gs = {} THEN <<>>
    ELSE LET g == CHOOSE x \in gs : \A y \in gs : x.order <= y.order
         IN  <<g>> \o sorted_by_name(gs \ {g})

BUILT_IN_GROUPS == {<<"a", "l", "l">>, <<"m", "y", "c", "o", "n", "t", "a", "c", "t", "s">>}

\* a group is [name, order, members], order being the rank of the name among
\* the names of the directory
query_groups(d, interested_groups) ==
    sorted_by_name({g \in Range(d.contactGroups) :
                      /\ g.members # {}
                      /\ casefold(g.name) \notin BUILT_IN_GROUPS
                      /\ interested_groups # {} => casefold(g.name) \in interested_groups})

\* Contacts._get_contacts, consumed by list(): the contacts it yields, or the
\* exception that ends the iteration, and the zip_code arguments of the
\* get_timezone calls made until then.  The home addresses of a contact are
\* built before its numbers and its email addresses
RECURSIVE get_contacts_from(_, _, _, _, _)
get_contacts_from(people, gs, interested_groups, zc, k) ==
    IF k > Len(people) THEN Returned(<<>>) @@ [calls |-> <<>>]
    ELSE
      LET person == people[k]
          membership == SelectSeq([j \in 1..Len(gs) |-> gs[j]],
                                  LAMBDA g : person.resourceName \in g.members)
          names == [j \in 1..Len(membership) |-> membership[j].name]
          name == get_name(person)
          calls == home_postal_codes(person)
          rest == get_contacts_from(people, gs, interested_groups, zc, k + 1)
      IN  IF interested_groups # {} /\ membership = <<>> THEN rest
          ELSE IF name = <<>> THEN rest
          ELSE IF get_mobile_numbers(person).raised # "no"
               THEN get_mobile_numbers(person) @@ [calls |-> calls]
          ELSE IF get_contact_email_addresses(person).raised # "no"
               THEN get_contact_email_addresses(person) @@ [calls |-> calls]
          ELSE IF rest.raised # "no" THEN [rest EXCEPT !.calls = calls \o @]
          ELSE Returned(
                 << [given_name |-> name[1], display_name |-> name[2],
                     nickname |-> get_nickname(person),
                     mobile_numbers |-> get_mobile_numbers(person).value[1],
                     dates |-> get_dates(person),
                     home_addresses |-> get_home_addresses(person, zc),
                     email_addresses |-> get_contact_email_addresses(person).value[1],
                     groups |-> names,
                     metadata |-> user_defined(person)] >> \o rest.value[1])
               @@ [calls |-> calls \o rest.calls]

fetch_contacts(d, interested_groups, zc) ==
    get_contacts_from(d.connections, query_groups(d, interested_groups),
                      interested_groups, zc, 1)

\* Contacts._get_profile
fetch_profile(d) ==
    LET profile == d.profile
        profile_name == get_name(profile)
        numbers == get_mobile_numbers(profile)
        addresses == get_contact_email_addresses(profile)
    IN  IF profile_name = <<>> THEN Raised("AssertionError")
        ELSE IF numbers.raised # "no" THEN numbers
        ELSE IF SelectSeq(numbers.value[1], LAMBDA x : x.is_primary) = <<>>
             THEN Raised("StopIteration")
        ELSE IF addresses.raised # "no" THEN addresses
        ELSE IF SelectSeq(addresses.value[1], LAMBDA x : x.is_primary) = <<>>
             THEN Raised("StopIteration")
        ELSE Returned([given_name |-> profile_name[1], display_name |-> profile_name[2],
                       mobile_number |-> SelectSeq(numbers.value[1], LAMBDA x : x.is_primary)[1],
                       email_address |-> SelectSeq(addresses.value[1], LAMBDA x : x.is_primary)[1]])

-----------------------------------------------------------------------------
(* api/services/contacts.py: the contacts cache.  An optional value is <<>> for
   None and <<value>> otherwise *)

\* pickle of the objects of a payload: a NamedTuple is written as its class and
\* its fields in positional order, a DateType as its int value, a date as
\* (year, month, day), a pytz zone as its name, a dict as its items
DateTypeValue(type) == IF type = BIRTHDAY THEN 1 ELSE 2
DateTypeOf(value) == IF value = 1 THEN BIRTHDAY ELSE ANNIVERSARY

dump_number(n) == [cls |-> "PhoneNumber", args |-> <<n.number, n.is_primary, n.is_bot>>]
load_number(b) == [number |-> b.args[1], is_primary |-> b.args[2], is_bot |-> b.args[3]]

dump_address(e) ==
    [cls |-> "EmailAddress", args |-> <<e.address, e.is_primary, e.is_phone, e.is_bot>>]
load_address(b) ==
    [address |-> b.args[1], is_primary |-> b.args[2], is_phone |-> b.args[3],
     is_bot |-> b.args[4]]

dump_date(dt) ==
    [cls |-> "DateTuple",
     args |-> <<DateTypeValue(dt.type), <<dt.date.year, dt.date.month, dt.date.day>> >>]
load_date(b) ==
    [type |-> DateTypeOf(b.args[1]),
     date |-> [year |-> b.args[2][1], month |-> b.args[2][2], day |-> b.args[2][3]]]

dump_home(a) == [cls |-> "Address", args |-> <<a.postal_code, a.tz>>]
load_home(b) == [postal_code |-> b.args[1], tz |-> b.args[2]]

dump_contact(c) ==
    [cls |-> "Contact",
     args |-> <<c.given_name, c.display_name, c.nickname,
                [k \in 1..Len(c.mobile_numbers) |-> dump_number(c.mobile_numbers[k])],
                [k \in 1..Len(c.dates) |-> dump_date(c.dates[k])],
                [k \in 1..Len(c.home_addresses) |-> dump_home(c.home_addresses[k])],
                [k \in 1..Len(c.email_addresses) |-> dump_address(c.email_addresses[k])],
                c.groups,
                {<<key, c.metadata[key]>> : key \in DOMAIN c.metadata}>>]
load_contact(b) ==
    [given_name |-> b.args[1], display_name |-> b.args[2], nickname |-> b.args[3],
     mobile_numbers |-> [k \in 1..Len(b.args[4]) |-> load_number(b.args[4][k])],
     dates |-> [k \in 1..Len(b.args[5]) |-> load_date(b.args[5][k])],
     home_addresses |-> [k \in 1..Len(b.args[6]) |-> load_home(b.args[6][k])],
     email_addresses |-> [k \in 1..Len(b.args[7]) |-> load_address(b.args[7][k])],
     groups |-> b.args[8],
     metadata |-> [key \in {item[1] : item \in b.args[9]} |->
                      (CHOOSE item \in b.args[9] : item[1] = key)[2]]]

dump_profile(p) ==
    [cls |-> "Profile",
     args |-> <<p.given_name, p.display_name, dump_number(p.mobile_number),
                dump_address(p.email_address)>>]
load_profile(b) ==
    [given_name |-> b.args[1], display_name |-> b.args[2],
     mobile_number |-> load_number(b.args[3]), email_address |-> load_address(b.args[4])]

\* pickle.dump(payload, f): the payload has the key "profile" when the profile
\* is not None and the key "contacts" when the contact list is not None
pickle_dump(profile, cs) ==
    [profile |-> IF profile = <<>> THEN <<>> ELSE <<dump_profile(profile[1])>>,
     contacts |-> IF cs = <<>> THEN <<>>
                  ELSE << [k \in 1..Len(cs[1]) |-> dump_contact(cs[1][k])] >>]

\* pickle.load(f), then payload.get("profile"), payload.get("contacts")
pickle_load(content) ==
    [profile |-> IF content.profile = <<>> THEN <<>>
                 ELSE <<load_profile(content.profile[1])>>,
     contacts |-> IF content.contacts = <<>> THEN <<>>
                  ELSE << [k \in 1..Len(content.contacts[1]) |->
                              load_contact(content.contacts[1][k])] >>]

\* Contacts._load_cache
load_cache ==
    IF cache_file = <<>> THEN [profile |-> <<>>, contacts |-> <<>>]
    ELSE pickle_load(cache_file[1])

\* Contacts._get_cache: the tuple it returns, which is self._cache afterwards
get_cache(inst) == IF inst.memo # <<>> THEN inst.memo[1] ELSE load_cache

\* _save_cache leaving self._cache as it was
save_cache_file_only(inst, profile, cs) ==
    LET cached == IF cache_file # <<>> THEN get_cache(inst)
                  ELSE [profile |-> <<>>, contacts |-> <<>>]
        new_profile == IF profile = <<>> THEN cached.profile ELSE profile
        new_contacts == IF cs = <<>> THEN cached.contacts ELSE cs
    IN  IF profile = <<>> /\ cs = <<>> THEN [memo |-> inst.memo, file |-> cache_file]
        ELSE [memo |-> inst.memo, file |-> <<pickle_dump(new_profile, new_contacts)>>]

\* _save_cache writing the component it was given and leaving the other out
save_cache_without_other(inst, profile, cs) ==
    IF profile = <<>> /\ cs = <<>> THEN [memo |-> inst.memo, file |-> cache_file]
    ELSE [memo |-> << [profile |-> profile, contacts |-> cs] >>,
          file |-> <<pickle_dump(profile, cs)>>]

\* Contacts._save_cache(profile, contacts) of an instance with a cache path:
\* self._cache and the file afterwards
save_cache(inst, profile, cs) ==
    LET cached == IF cache_file # <<>> THEN get_cache(inst)
                  ELSE [profile |-> <<>>, contacts |-> <<>>]
        new_profile == IF profile = <<>> THEN cached.profile ELSE profile
        new_contacts == IF cs = <<>> THEN cached.contacts ELSE cs
    IN  IF profile = <<>> /\ cs = <<>> THEN [memo |-> inst.memo, file |-> cache_file]
        ELSE [memo |-> << [profile |-> new_profile, contacts |-> new_contacts] >>,
              file |-> <<pickle_dump(new_profile, new_contacts)>>]

\* Why a call did not answer from the cache: "no_path" (no cache path given),
\* "no_file" (no file at the path), "no_value" (the cache has no value for the
\* component), "not_asked" (load_cache is false); "hit" when it did
cache_lookup(inst, load, component) ==
    IF ~load THEN "not_asked"
    ELSE IF ~inst.cache THEN "no_path"
    ELSE IF cache_file = <<>> THEN "no_file"
    ELSE IF get_cache(inst)[component] = <<>> THEN "no_value"
    ELSE "hit"

-----------------------------------------------------------------------------
(* The inputs of a run *)

RefDate == [year |-> 2030, month |-> 3, day |-> 15]

Amy == <<"A", "m", "y">>
Bob == <<"B", "o", "b">>
Bobby == <<"B", "o", "b", "b", "y">>
Rob == <<"R", "o", "b">>

UsNumber == <<"2", "0", "2", "5", "5", "5", "1", "2", "3", "4">>
UsNumberPlus == <<"+", "1", "2", "0", "2", "5", "5", "5", "0", "0", "0", "0">>
UsNumberSpace == <<"+", "1", " ", "2", "0", "2", "5", "5", "5", "0", "0", "0", "1">>
DashedNumber == <<"2", "0", "2", "-", "5", "5", "5", "-", "1", "2", "3", "4">>
UkNumber == <<"+", "4", "4", "2", "0", "7", "1", "2", "3", "4", "5", "6", "7">>

PlainAddress == <<"a", "m", "y", "@", "example.com">>
OtherAddress == <<"b", "o", "b", "@", "example.com">>
GatewayAddress == UsNumber \o <<"@", "vtext.com">>

Contact(given_name, nickname, mobile_numbers, dates, email_addresses, grps, metadata) ==
    [given_name |-> given_name, display_name |-> given_name \o <<" ">> \o <<"X">>,
     nickname |-> nickname, mobile_numbers |-> mobile_numbers, dates |-> dates,
     home_addresses |-> <<>>, email_addresses |-> email_addresses,
     groups |-> grps, metadata |-> metadata]

NoMetadata == [k \in {} |-> NoneStr]
OptOut(value) == [k \in {BOT_OPT_OUT} |-> value]

BirthdayToday == DateTuple(BIRTHDAY, 2001, 3, 15)
AnniversaryToday == DateTuple(ANNIVERSARY, 2030, 3, 15)
BirthdayNextDay == DateTuple(BIRTHDAY, 2001, 3, 16)
AnniversaryNextMonth == DateTuple(ANNIVERSARY, 2030, 4, 15)

AllChannels ==
    <<EmailAddress(GatewayAddress, TRUE, TRUE, FALSE),
      EmailAddress(PlainAddress, TRUE, FALSE, FALSE)>>

\* The contacts a run's list is drawn from
ContactPool ==
    { \* the text-only scenario: one primary US mobile number, no address
      Contact(Amy, NoneStr, <<PhoneNumber(UsNumber, TRUE, FALSE)>>, <<BirthdayToday>>,
              <<>>, << <<"F", "a", "m">> >>, NoMetadata),
      \* the same contact, opted out
      Contact(Amy, NoneStr, <<PhoneNumber(UsNumber, TRUE, FALSE)>>, <<BirthdayToday>>,
              <<>>, <<>>, OptOut(<<"t", "r", "u", "e">>)),
      \* opted out in other spellings, with every channel and two events today
      Contact(Bob, NoneStr, <<PhoneNumber(UsNumberPlus, FALSE, TRUE)>>,
              <<BirthdayToday, AnniversaryToday>>, AllChannels, <<>>,
              OptOut(<<"T", "r", "U", "E">>)),
      Contact(Bob, NoneStr, <<>>, <<AnniversaryToday>>, AllChannels, <<>>,
              OptOut(<<"1">>)),
      \* the email-only scenario: no number, one primary address
      Contact(Amy, NoneStr, <<>>, <<BirthdayToday>>,
              <<EmailAddress(PlainAddress, TRUE, FALSE, FALSE)>>, <<>>, NoMetadata),
      \* every channel, two events today and one on another day; a nickname and
      \* an empty custom saluation
      Contact(Bob, Bobby, <<PhoneNumber(UsNumberSpace, TRUE, FALSE)>>,
              <<BirthdayToday, BirthdayNextDay, AnniversaryToday>>, AllChannels,
              <<>>, [k \in {BOT_SALUATION} |-> <<>>]),
      \* no date at all, and no date today
      Contact(Bob, NoneStr, <<PhoneNumber(UsNumber, TRUE, FALSE)>>, <<>>, AllChannels,
              <<>>, NoMetadata),
      Contact(Bob, NoneStr, <<PhoneNumber(UsNumber, TRUE, FALSE)>>,
              <<BirthdayNextDay, AnniversaryNextMonth>>, AllChannels, <<>>, NoMetadata),
      \* no channel: numbers that are not US, an address that is neither primary nor bot
      Contact(Bob, NoneStr,
              <<PhoneNumber(UkNumber, TRUE, FALSE), PhoneNumber(DashedNumber, FALSE, TRUE)>>,
              <<BirthdayToday>>, <<EmailAddress(OtherAddress, FALSE, FALSE, FALSE)>>,
              <<>>, NoMetadata),
      \* two phone-derived addresses: a primary one, then a bot one; an empty
      \* nickname
      Contact(Bob, <<>>, <<>>, <<AnniversaryToday>>,
              <<EmailAddress(GatewayAddress, TRUE, TRUE, FALSE),
                EmailAddress(UsNumber \o <<"@", "tmomail.com">>, FALSE, TRUE, TRUE)>>,
              <<>>, NoMetadata),
      \* a number that is not US before a US one, neither flagged
      Contact(Bob, NoneStr,
              <<PhoneNumber(UkNumber, FALSE, FALSE), PhoneNumber(UsNumber, FALSE, FALSE)>>,
              <<AnniversaryToday>>, <<>>, <<>>, NoMetadata),
      \* a nickname and a custom saluation, an opt-out value that is not truthy,
      \* a bot address
      Contact(Bob, Bobby, <<>>, <<AnniversaryToday>>,
              <<EmailAddress(OtherAddress, FALSE, FALSE, TRUE)>>, <<>>,
              [k \in {BOT_SALUATION, BOT_OPT_OUT} |->
                  IF k = BOT_SALUATION THEN Rob ELSE <<"F", "a", "l", "s", "e">>]) }

\* The groups argument of Messaging(profile, groups): None, [] and ["FAM"]
GroupArguments == {<<>>, << <<>> >>, << << <<"F", "A", "M">> >> >>}

\* A run that makes no use of the directory and of the contacts cache
NoDirectory == [profile |-> None, connections |-> <<>>, contactGroups |-> <<>>]
NoInstances == [i \in {} |-> None]
NoZipCode == [cache_file |-> FALSE, cache |-> {}, is_dirty |-> FALSE]

-----------------------------------------------------------------------------
(* A run of Messaging.send_messages *)

\* Messaging(profile, groups) and the arguments of the call
InitRun ==
    /\ settings_email \in BOOLEAN
    /\ settings_text \in {"none", "noauth", "auth"}
    /\ \E g \in GroupArguments : groups = to_frozen_set(g)
    /\ rules = create_send_message_rules
    /\ contacts \in SeqsUpTo(ContactPool, MaxContacts)
    /\ dry_run \in BOOLEAN
    /\ pc = "start"
    /\ idx = 0
    /\ rule_idx = 0
    /\ send_dates = <<>>
    /\ saluation = NoneStr
    /\ sent = <<>>
    /\ attempts = <<>>
    /\ applied = <<>>
    /\ op = "none"
    /\ result = None
    /\ directory = NoDirectory
    /\ saved = <<>>
    /\ zipcode = NoZipCode
    /\ zipcode_file = <<>>
    /\ lookups = <<>>

Init ==
    /\ InitRun
    /\ cache_file = <<>>
    /\ instances = NoInstances
    /\ templates = ShippedTemplates

\* send_messages up to its for loop
SendMessages ==
    /\ pc = "start"
    /\ IF supported_protocols = <<>>
       THEN pc' = "done" /\ idx' = idx /\ contacts' = contacts
       ELSE /\ contacts' = IF groups # {} THEN contacts_after_filter(contacts)
                           ELSE contacts
            /\ IF groups # {} /\ contacts' = <<>> THEN pc' = "done" /\ idx' = idx
               ELSE pc' = "loop" /\ idx' = 1
    /\ UNCHANGED <<settings_email, settings_text, groups, rules, dry_run,
                   rule_idx, send_dates, saluation, sent, attempts, applied, op,
                   result>>
    /\ UNCHANGED cacheVars
    /\ UNCHANGED <<templates, zipVars>>

\* apply up to its for loop over the rules
Apply ==
    /\ pc = "loop"
    /\ idx <= Len(contacts)
    /\ LET contact == contacts[idx]
           dates == SelectSeq(contact.dates, LAMBDA dt : is_today(dt, RefDate))
       IN  IF rules = <<>> \/ opt_out_messages(contact) \/ dates = <<>>
           THEN /\ idx' = next_contact(idx)
                /\ UNCHANGED <<pc, rule_idx, send_dates, saluation>>
           ELSE /\ pc' = "rules"
                /\ rule_idx' = 1
                /\ send_dates' = dates
                /\ saluation' = contact_saluation(contact)
                /\ idx' = idx
    /\ applied' = Append(applied, idx)
    /\ UNCHANGED <<settings_email, settings_text, groups, rules, contacts, dry_run,
                   sent, attempts, op, result>>
    /\ UNCHANGED cacheVars
    /\ UNCHANGED <<templates, zipVars>>

\* One call of rule r by apply's for loop: every way it can go, as the transport
\* calls made and how the rule ended
rule_call(name, r, c, dates, sal) ==
    IF ~r.found THEN {[calls |-> <<>>, outcome |-> "returned_false"]}
    ELSE {[calls |-> run.calls,
           outcome |-> IF run.raised THEN "raised" ELSE "returned_true"] :
             run \in rule_loop(name, r, c, dates, sal, 1)}

\* One iteration of apply's for loop: the call of rule r and what follows it
RuleStep(name, r) ==
    /\ pc = "rules"
    /\ rule_idx <= Len(rules)
    /\ rules[rule_idx] = name
    /\ \E run \in rule_call(name, r, idx, send_dates, saluation) :
         /\ sent' = sent \o run.calls
         /\ attempts' = Append(attempts, [contact |-> idx, rule |-> name,
                                          outcome |-> run.outcome])
         /\ IF next_rule_tried(run.outcome)
            THEN /\ rule_idx' = rule_idx + 1
                 /\ UNCHANGED <<pc, idx, send_dates, saluation>>
            ELSE /\ pc' = "loop"
                 /\ idx' = next_contact(idx)
                 /\ rule_idx' = 0
                 /\ send_dates' = <<>>
                 /\ saluation' = NoneStr
    /\ UNCHANGED <<settings_email, settings_text, groups, rules, contacts, dry_run,
                   applied, op, result>>
    /\ UNCHANGED cacheVars
    /\ UNCHANGED <<templates, zipVars>>

EmailMobileRule == RuleStep("email_mobile_rule", email_mobile_rule(contacts[idx]))

TextRule == RuleStep("text_rule", text_rule(contacts[idx]))

EmailMobileWideRule ==
    RuleStep("email_mobile_wide_rule", email_mobile_wide_rule(contacts[idx]))

EmailRule == RuleStep("email_rule", email_rule(contacts[idx]))

\* apply's for loop ran out of rules: return False
RulesExhausted ==
    /\ pc = "rules"
    /\ rule_idx > Len(rules)
    /\ pc' = "loop"
    /\ idx' = next_contact(idx)
    /\ rule_idx' = 0
    /\ send_dates' = <<>>
    /\ saluation' = NoneStr
    /\ UNCHANGED <<settings_email, settings_text, groups, rules, contacts, dry_run,
                   sent, attempts, applied, op, result>>
    /\ UNCHANGED cacheVars
    /\ UNCHANGED <<templates, zipVars>>

\* send_messages' for loop ran out of contacts
Return ==
    /\ pc = "loop"
    /\ idx > Len(contacts)
    /\ pc' = "done"
    /\ UNCHANGED <<settings_email, settings_text, groups, rules, contacts, dry_run,
                   idx, rule_idx, send_dates, saluation, sent, attempts, applied, op,
                   result>>
    /\ UNCHANGED cacheVars
    /\ UNCHANGED <<templates, zipVars>>

Next ==
    \/ SendMessages
    \/ Apply
    \/ EmailMobileRule
    \/ TextRule
    \/ EmailMobileWideRule
    \/ EmailRule
    \/ RulesExhausted
    \/ Return

Spec == Init /\ [][Next]_vars

FairSpec == Spec /\ WF_vars(Next)

\* Messaging.dry_run
DryRun ==
    /\ pc = "start"
    /\ contacts' = IF groups # {} THEN contacts_after_filter(contacts) ELSE contacts
    /\ pc' = "dry_run_done"
    /\ op' = "dry_run"
    /\ result' = [logged |-> IF groups # {} /\ contacts' = <<>> THEN <<>>
                             ELSE notifications(contacts', 1)]
    /\ UNCHANGED <<settings_email, settings_text, groups, rules, dry_run, idx,
                   rule_idx, send_dates, saluation, sent, attempts, applied>>
    /\ UNCHANGED cacheVars
    /\ UNCHANGED <<templates, zipVars>>

\* The template lists of a deployment: as shipped, or with an empty list
TemplateLists ==
    {ShippedTemplates,
     [ShippedTemplates EXCEPT !.anniversary.MESSAGES = <<>>],
     [ShippedTemplates EXCEPT !.birthday.SUBJECTS = <<>>]}

InitTemplates ==
    /\ InitRun
    /\ cache_file = <<>>
    /\ instances = NoInstances
    /\ templates \in TemplateLists

SpecTemplates == InitTemplates /\ [][Next]_vars

-----------------------------------------------------------------------------
(* The channel derivation functions of Contact, applied to one contact *)

NumberPool ==
    {PhoneNumber(n, p, b) :
        n \in {UsNumber, UsNumberSpace, DashedNumber, UkNumber},
        p \in BOOLEAN, b \in BOOLEAN}

AttAddress == UsNumber \o <<"@", "txt.att.net">>

EmailPool ==
    {EmailAddress(a, p, ph, b) :
        a \in {PlainAddress, GatewayAddress},
        p \in BOOLEAN, ph \in BOOLEAN, b \in BOOLEAN}
    \cup {EmailAddress(AttAddress, FALSE, TRUE, FALSE)}

DatePool ==
    {DateTuple(BIRTHDAY, y, m, d) : y \in {2001, 2030}, m \in {3, 4}, d \in {15, 16}}

TestDates ==
    {[year |-> y, month |-> m, day |-> d] : y \in {2030, 2031}, m \in {3, 4}, d \in {15, 16}}

InitDerive ==
    /\ settings_email = FALSE
    /\ settings_text = "none"
    /\ groups = {}
    /\ rules = <<>>
    /\ \/ \E ns \in SeqsUpTo(NumberPool, MaxNumbers) :
            contacts = <<Contact(Amy, NoneStr, ns, <<>>, <<>>, <<>>, NoMetadata)>>
       \/ \E es \in SeqsUpTo(EmailPool, MaxEmails) :
            contacts = <<Contact(Amy, NoneStr, <<>>, <<>>, es, <<>>, NoMetadata)>>
       \/ \E dt \in DatePool :
            contacts = <<Contact(Amy, NoneStr, <<>>, <<dt>>, <<>>, <<>>, NoMetadata)>>
    /\ dry_run = FALSE
    /\ pc = "derive"
    /\ idx = 0
    /\ rule_idx = 0
    /\ send_dates = <<>>
    /\ saluation = NoneStr
    /\ sent = <<>>
    /\ attempts = <<>>
    /\ applied = <<>>
    /\ op = "none"
    /\ result = None
    /\ directory = NoDirectory
    /\ cache_file = <<>>
    /\ instances = NoInstances
    /\ saved = <<>>
    /\ templates = ShippedTemplates
    /\ zipcode = NoZipCode
    /\ zipcode_file = <<>>
    /\ lookups = <<>>

Derive(name, value) ==
    /\ pc = "derive"
    /\ op = "none"
    /\ op' = name
    /\ result' = value
    /\ UNCHANGED <<settings_email, settings_text, groups, rules, contacts, dry_run, pc,
                   idx, rule_idx, send_dates, saluation, sent, attempts, applied>>
    /\ UNCHANGED cacheVars
    /\ UNCHANGED <<templates, zipVars>>

GetUsMobileNumber ==
    Derive("get_us_mobile_number", get_us_mobile_number(contacts[1]))

GetAllMobileEmailAddresses ==
    Derive("get_all_mobile_email_addresses", get_all_mobile_email_addresses(contacts[1]))

GetPrimaryMobileEmailAddress ==
    Derive("get_primary_mobile_email_address", get_primary_mobile_email_address(contacts[1]))

GetPrimaryEmailAddress ==
    Derive("get_primary_email_address", get_primary_email_address(contacts[1]))

\* PhoneNumber.get_email_addresses of one number of the contact
GetEmailAddresses ==
    \E k \in 1..Len(contacts[1].mobile_numbers) :
        LET n == contacts[1].mobile_numbers[k]
        IN  Derive("get_email_addresses",
                   [number |-> n, addresses |-> get_email_addresses(n)])

\* EmailAddress.get_mobile_carrier of one address of the contact
GetMobileCarrier ==
    \E k \in 1..Len(contacts[1].email_addresses) :
        LET e == contacts[1].email_addresses[k]
        IN  Derive("get_mobile_carrier",
                   [address |-> e, carrier |-> get_mobile_carrier(e),
                    enabled |-> is_enabled(e)])

\* DateTuple.is_today of one date event of the contact
IsToday ==
    \E k \in 1..Len(contacts[1].dates), test \in TestDates :
        LET dt == contacts[1].dates[k]
        IN  Derive("is_today", [dt |-> dt, test |-> test, value |-> is_today(dt, test)])

\* The emailAddresses entries of a person resource
RawEmailPool ==
    {[type |-> t, value |-> PlainAddress, primary |-> p] :
        t \in {HOME_LABEL, <<"H", "O", "M", "E">>, <<"M", "o", "b", "i", "l", "e">>,
               PHONE_LABEL, <<"w", "o", "r", "k">>, <<>>},
        p \in BOOLEAN}

\* Contacts._get_email_addresses of a person with one or two entries
GetContactEmailAddresses ==
    /\ contacts[1].mobile_numbers = <<>>
    /\ contacts[1].email_addresses = <<>>
    /\ contacts[1].dates = <<>>
    /\ \E es \in SeqsUpTo(RawEmailPool, 2) :
          Derive("_get_email_addresses",
                 [emailAddresses |-> es,
                  outcome |-> get_contact_email_addresses([emailAddresses |-> es])])

NextDerive ==
    \/ GetContactEmailAddresses
    \/ GetUsMobileNumber
    \/ GetAllMobileEmailAddresses
    \/ GetPrimaryMobileEmailAddress
    \/ GetPrimaryEmailAddress
    \/ GetEmailAddresses
    \/ GetMobileCarrier
    \/ IsToday

SpecDerive == InitDerive /\ [][NextDerive]_vars

-----------------------------------------------------------------------------
(* Calls of Contacts.get_contacts and Contacts.get_profile by two Contacts
   objects that share one cache path, or have none *)

Instances == {1, 2}

AmyX == <<"A", "m", "y", " ", "X">>
BobY == <<"B", "o", "b", " ", "Y">>

Person(resourceName, names, nicknames, phoneNumbers, emailAddresses, birthdays, events) ==
    [resourceName |-> resourceName, names |-> names, nicknames |-> nicknames,
     phoneNumbers |-> phoneNumbers, emailAddresses |-> emailAddresses,
     birthdays |-> birthdays, events |-> events,
     userDefined |-> IF nicknames = <<>> THEN <<>>
                     ELSE <<[key |-> BOT_SALUATION, value |-> Rob],
                            [key |-> BOT_OPT_OUT, value |-> <<"1">>],
                            [key |-> BOT_SALUATION, value |-> Bobby]>>,
     addresses |-> <<[type |-> <<"H", "o", "m", "e">>,
                      postalCode |-> <<"1", "0", "0", "2", "2">>],
                     [type |-> <<"w", "o", "r", "k">>,
                      postalCode |-> <<"9", "4", "1", "0", "5">>]>>
                   \o (IF nicknames = <<>> THEN <<>>
                       ELSE <<[type |-> <<"h", "o", "m", "e">>,
                               postalCode |-> <<"6", "0", "6", "0", "1">>],
                              [type |-> <<"H", "O", "M", "E">>,
                               postalCode |-> <<"1", "0", "0", "2", "2">>]>>)]

\* a person with a name, a birthday without a year, an anniversary and an
\* address labelled "work", which the normalizer passes over
PersonAmy ==
    Person("people/1", <<[givenName |-> NoneStr, displayName |-> AmyX \o <<" ">>]>>, <<>>,
           <<>>, <<[type |-> <<"w", "o", "r", "k">>, value |-> PlainAddress, primary |-> TRUE]>>,
           <<[date |-> [year |-> 0, month |-> 3, day |-> 15], primary |-> TRUE]>>,
           <<[type |-> "anniversary", date |-> [year |-> 2010, month |-> 6, day |-> 1]],
             [type |-> "other", date |-> [year |-> 2011, month |-> 7, day |-> 2]]>>)

\* a person with a nickname and custom fields
PersonBob ==
    Person("people/2", <<[givenName |-> Bob, displayName |-> BobY]>>,
           <<[value |-> <<" ">> \o Bobby, primary |-> TRUE]>>, <<>>, <<>>,
           <<[date |-> [year |-> 1990, month |-> 3, day |-> 16], primary |-> FALSE]>>, <<>>)

\* a person without a name, and persons with a mobile number and with a home
\* email address
PersonNameless == Person("people/3", <<>>, <<>>, <<>>, <<>>, <<>>, <<>>)

PersonWithNumber ==
    Person("people/4", <<[givenName |-> Rob, displayName |-> Rob]>>, <<>>,
           <<[type |-> MOBILE_LABEL, value |-> UsNumber, primary |-> TRUE]>>, <<>>, <<>>, <<>>)

PersonWithAddress ==
    Person("people/5", <<[givenName |-> Rob, displayName |-> Rob]>>, <<>>, <<>>,
           <<[type |-> <<"H", "O", "M", "E">>, value |-> OtherAddress, primary |-> TRUE]>>,
           <<>>, <<>>)

ContactGroups ==
    <<[name |-> <<"F", "a", "m">>, order |-> 2, members |-> {"people/1", "people/4"}],
      [name |-> <<"A", "L", "L">>, order |-> 1, members |-> {"people/1", "people/2"}],
      [name |-> <<"M", "a", "t", "e", "s">>, order |-> 3, members |-> {"people/2", "people/1"}],
      [name |-> <<"S", "o", "l", "o">>, order |-> 4, members |-> {}]>>

\* The directories: what people/me and the connections are
Directories ==
    {[profile |-> PersonWithNumber, connections |-> cs, contactGroups |-> ContactGroups] :
        cs \in {<<>>, <<PersonAmy>>, <<PersonBob, PersonNameless, PersonAmy>>,
                <<PersonAmy, PersonWithNumber>>, <<PersonWithAddress, PersonBob>>}}
    \cup {[profile |-> PersonAmy, connections |-> <<PersonAmy>>,
           contactGroups |-> ContactGroups]}

\* What the file of the ZipCode holds when the object is built: nothing, or the
\* timezone of a postal code of the directory
ZipCodeFiles ==
    {<<>>, <<pack({<< <<Country_US, <<"1", "0", "0", "2", "2">> >>, "America/New_York">>})>>}

\* What the cache file holds when the run starts: nothing, or the payload of an
\* earlier run (a profile, a contact list, both)
CachedProfile ==
    [given_name |-> Rob, display_name |-> Rob,
     mobile_number |-> PhoneNumber(UsNumber, TRUE, FALSE),
     email_address |-> EmailAddress(OtherAddress, TRUE, FALSE, FALSE)]

CachedContacts ==
    <<Contact(Bob, NoneStr, <<PhoneNumber(UsNumber, TRUE, FALSE)>>, <<AnniversaryToday>>,
              AllChannels, << <<"F", "a", "m">> >>, OptOut(<<"1">>)),
      Contact(Amy, Bobby, <<>>, <<>>, <<>>, <<>>, NoMetadata)>>

CacheFiles ==
    {<<>>} \cup {<<pickle_dump(p, cs)>> :
                    p \in {<<>>, <<CachedProfile>>},
                    cs \in {<<>>, << <<>> >>, <<CachedContacts>>}}

InitCache ==
    /\ settings_email = FALSE
    /\ settings_text = "none"
    /\ groups = {}
    /\ rules = <<>>
    /\ contacts = <<>>
    /\ dry_run = FALSE
    /\ pc = "cache"
    /\ idx = 0
    /\ rule_idx = 0
    /\ send_dates = <<>>
    /\ saluation = NoneStr
    /\ sent = <<>>
    /\ attempts = <<>>
    /\ applied = <<>>
    /\ op = "none"
    /\ result = None
    /\ directory \in Directories
    /\ cache_file \in CacheFiles
    /\ instances \in [Instances -> [cache : BOOLEAN, memo : {<<>>}]]
    /\ instances[2].cache
    /\ saved = <<>>
    /\ templates = ShippedTemplates
    /\ zipcode_file = <<>>
    /\ zipcode = ZipCode(TRUE, zipcode_file)
    /\ lookups = <<>>

\* The state after a call of instance i: the instance's _cache, the file, the
\* last saved contact list and the record of the call
Called(i, memo, file, wrote, record) ==
    /\ pc = "cache"
    /\ instances' = [instances EXCEPT ![i].memo = memo]
    /\ cache_file' = file
    /\ saved' = IF wrote = <<>> THEN saved ELSE <<[by |-> i, contacts |-> wrote[1]]>>
    /\ op' = record.fn
    /\ result' = record
    /\ UNCHANGED <<settings_email, settings_text, groups, rules, contacts, dry_run, pc,
                   idx, rule_idx, send_dates, saluation, sent, attempts, applied,
                   directory, templates, zipcode_file>>
    /\ LET pass == get_timezones(zipcode, record.timezone_calls)
       IN  zipcode' = pass.zipcode /\ lookups' = lookups \o pass.looked_up

\* The test of get_contacts that ignores the groups it was called with
saves_whatever_groups(save, interested, inst) == save /\ inst.cache

\* The test of get_contacts before it writes the list it fetched to the cache
saves_contacts(save, interested, inst) == save /\ interested = {} /\ inst.cache

\* Contacts.get_contacts(groups, load_cache, save_cache) of instance i
GetContacts(i, g, load, save) ==
    LET inst == instances[i]
        interested == to_frozen_set(g)
        lookup == cache_lookup(inst, load, "contacts")
        read == load /\ inst.cache /\ cache_file # <<>>
        memo == IF read THEN <<get_cache(inst)>> ELSE inst.memo
        record == [fn |-> "get_contacts", instance |-> i, groups |-> interested,
                   save_cache |-> save,
                   lookup |-> lookup, fresh |-> inst.memo = <<>>]
    IN  IF lookup = "hit"
        THEN LET cached == get_cache(inst).contacts[1]
                 value == IF interested # {}
                          THEN SelectSeq(cached, LAMBDA c : is_member(c, interested))
                          ELSE cached
             IN  Called(i, memo, cache_file, <<>>,
                        record @@ [outcome |-> "returned", value |-> <<value>>,
                                   timezone_calls |-> <<>>])
        ELSE \E fetch \in {fetch_contacts(directory, interested, zipcode),
                           Raised("RefreshError") @@ [calls |-> <<>>]} :
               LET fetched == record @@ [timezone_calls |-> fetch.calls]
               IN  IF fetch.raised # "no"
                   THEN Called(i, memo, cache_file, <<>>,
                               fetched @@ [outcome |-> fetch.raised, value |-> <<>>])
                   ELSE IF saves_contacts(save, interested, inst)
                   THEN LET after == save_cache([inst EXCEPT !.memo = memo], <<>>,
                                                fetch.value)
                        IN  Called(i, after.memo, after.file, fetch.value,
                                   fetched @@ [outcome |-> "returned",
                                               value |-> fetch.value])
                   ELSE Called(i, memo, cache_file, <<>>,
                               fetched @@ [outcome |-> "returned", value |-> fetch.value])

\* Contacts.get_profile(load_cache, save_cache) of instance i
GetProfile(i, load, save) ==
    LET inst == instances[i]
        lookup == cache_lookup(inst, load, "profile")
        read == load /\ inst.cache /\ cache_file # <<>>
        memo == IF read THEN <<get_cache(inst)>> ELSE inst.memo
        record == [fn |-> "get_profile", instance |-> i, groups |-> {},
                   save_cache |-> save, timezone_calls |-> <<>>,
                   lookup |-> lookup, fresh |-> inst.memo = <<>>]
    IN  IF lookup = "hit"
        THEN Called(i, memo, cache_file, <<>>,
                    record @@ [outcome |-> "returned", value |-> get_cache(inst).profile])
        ELSE \E fetch \in {fetch_profile(directory), Raised("RefreshError")} :
               IF fetch.raised # "no"
               THEN Called(i, memo, cache_file, <<>>,
                           record @@ [outcome |-> fetch.raised, value |-> <<>>])
               ELSE IF save /\ inst.cache
               THEN LET after == save_cache([inst EXCEPT !.memo = memo], fetch.value, <<>>)
                    IN  Called(i, after.memo, after.file, <<>>,
                               record @@ [outcome |-> "returned", value |-> fetch.value])
               ELSE Called(i, memo, cache_file, <<>>,
                           record @@ [outcome |-> "returned", value |-> fetch.value])

NextCache ==
    \/ \E i \in Instances, g \in GroupArguments, load \in BOOLEAN, save \in BOOLEAN :
          GetContacts(i, g, load, save)
    \/ \E i \in Instances, load \in BOOLEAN, save \in BOOLEAN : GetProfile(i, load, save)

SpecCache == InitCache /\ [][NextCache]_vars

-----------------------------------------------------------------------------
(* Calls of one Contacts object: get_contacts and get_profile, and _save_cache
   with the profile or the contact list of a fetch *)

ProfileArguments ==
    {<<>>, <<CachedProfile>>, <<[CachedProfile EXCEPT !.given_name = Amy]>>}

ContactsArguments == {<<>>, <<CachedContacts>>, <<SubSeq(CachedContacts, 2, 2)>>}

InitSave ==
    /\ InitCache
    /\ directory.profile = PersonWithNumber
    /\ directory.connections \in {<<PersonAmy>>, <<PersonBob, PersonNameless, PersonAmy>>}

\* Contacts._save_cache(profile, contacts) of instance i
SaveCache(i, profile, cs) ==
    LET inst == instances[i]
        record == [fn |-> "_save_cache", instance |-> i, groups |-> {},
                   save_cache |-> TRUE, timezone_calls |-> <<>>, lookup |-> "not_asked",
                   fresh |-> inst.memo = <<>>, profile |-> profile, contacts |-> cs,
                   value |-> <<>>]
    IN  IF ~inst.cache
        THEN Called(i, inst.memo, cache_file, <<>>, record @@ [outcome |-> "ValueError"])
        ELSE LET after == save_cache(inst, profile, cs)
             IN  Called(i, after.memo, after.file, cs, record @@ [outcome |-> "returned"])

NextSave ==
    \/ \E g \in GroupArguments, load \in BOOLEAN, save \in BOOLEAN :
          GetContacts(1, g, load, save)
    \/ \E load \in BOOLEAN, save \in BOOLEAN : GetProfile(1, load, save)
    \/ \E profile \in ProfileArguments, cs \in ContactsArguments : SaveCache(1, profile, cs)

SpecSave == InitSave /\ [][NextSave]_vars

-----------------------------------------------------------------------------
(* A run of Messaging.send_messages or Messaging.dry_run on the profile and the
   contact list a Contacts object answered from its cache: the list handed to
   the run is the list of the object's _cache *)

\* The contacts of the cached lists: those of the pool without custom fields
CachedPool == {c \in ContactPool : c.metadata = NoMetadata}

InitInputs ==
    /\ InitRun
    /\ Range(contacts) \subseteq CachedPool
    /\ instances = [i \in {1} |->
                      [cache |-> TRUE,
                       memo |-> << [profile |-> <<CachedProfile>>,
                                    contacts |-> <<contacts>>] >>]]
    /\ cache_file = <<pickle_dump(<<CachedProfile>>, <<contacts>>)>>
    /\ templates = ShippedTemplates

NextInputs == Next \/ DryRun

SpecInputs == InitInputs /\ [][NextInputs]_vars

-----------------------------------------------------------------------------
(* What the claims speak of *)

\* The transport calls made for the contact at position i, and the rule calls
CallsOf(i) == SelectSeq(sent, LAMBDA m : m.contact = i)
AttemptsOf(i) == SelectSeq(attempts, LAMBDA a : a.contact = i)

\* The letters of the opt-out spellings, in both cases
SameLetter(a, b) ==
    \/ a = b
    \/ <<a, b>> \in {<<"T", "t">>, <<"R", "r">>, <<"U", "u">>, <<"E", "e">>}

EqualsIgnoringCase(a, b) ==
    Len(a) = Len(b) /\ \A k \in 1..Len(a) : SameLetter(a[k], b[k])

\* The contact's BOT_OPT_OUT value is "true" or "1", in any case
OptedOut(c) ==
    /\ BOT_OPT_OUT \in DOMAIN c.metadata
    /\ \/ EqualsIgnoringCase(c.metadata[BOT_OPT_OUT], <<"t", "r", "u", "e">>)
       \/ c.metadata[BOT_OPT_OUT] = <<"1">>

\* The date events of the contact that fall on the reference date's month and day
EventsToday(c) ==
    SelectSeq(c.dates,
              LAMBDA dt : dt.date.month = RefDate.month /\ dt.date.day = RefDate.day)

\* sub occurs in s
Contains(s, sub) ==
    \E k \in 0..(Len(s) - Len(sub)) : SubSeq(s, k + 1, k + Len(sub)) = sub

OnlyText == ~settings_email /\ settings_text = "auth"
OnlyEmail == settings_email /\ settings_text # "auth"
BothProtocols == settings_email /\ settings_text = "auth"

-----------------------------------------------------------------------------
(* C1: a contact whose BOT_OPT_OUT value equals "true" or "1", in any case, is
   never the recipient of a transport call of a run, whatever its dates and
   channels and whatever protocols are supported. *)
C1_OptOutNeverSent ==
    \A k \in 1..Len(sent) : ~OptedOut(contacts[sent[k].contact])

\* A finished run that sent something, with an opted-out contact ("TrUE") that
\* has events today, a US number and addresses, both protocols supported
C1_Witness ==
    /\ pc = "done"
    /\ BothProtocols /\ ~dry_run
    /\ sent # <<>>
    /\ \E i \in 1..Len(contacts) :
         /\ OptedOut(contacts[i])
         /\ contacts[i].metadata[BOT_OPT_OUT] = <<"T", "r", "U", "E">>
         /\ Len(EventsToday(contacts[i])) = 2
         /\ contacts[i].mobile_numbers # <<>>
         /\ contacts[i].email_addresses # <<>>
         /\ i \in Range(applied)

(* C2: with only text supported, a contact that has not opted out, has events
   today and has a US mobile number gets exactly one text message per event
   today, transmitted to its preferred US number with a body containing its
   saluation, and no email call is made for it. *)
C2_TextOnlyOneTextPerEvent ==
    (pc = "done" /\ OnlyText /\ ~dry_run) =>
        \A i \in 1..Len(contacts) :
            LET c == contacts[i]
                texts == SelectSeq(CallsOf(i), LAMBDA m : m.kind = "text")
            IN  (~OptedOut(c) /\ EventsToday(c) # <<>> /\ get_us_mobile_number(c) # None) =>
                    /\ Len(texts) = Len(EventsToday(c))
                    /\ \A k \in 1..Len(texts) :
                          /\ texts[k].outcome = "delivered"
                          /\ texts[k].to = get_us_mobile_number(c)
                          /\ Contains(texts[k].body, contact_saluation(c))
                    /\ Len(CallsOf(i)) = Len(texts)

(* C3: with only email supported, a contact (not opted out) with no mobile
   number, no phone-derived address and one address, which is primary, with one
   event today, gets exactly one email call, addressed to that address, with a
   subject and a body. *)
C3_EmailOnlyPrimaryAddress ==
    (pc = "done" /\ OnlyEmail) =>
        \A i \in 1..Len(contacts) :
            LET c == contacts[i]
                calls == CallsOf(i)
            IN  (/\ ~OptedOut(c)
                 /\ c.mobile_numbers = <<>>
                 /\ Len(c.email_addresses) = 1
                 /\ c.email_addresses[1].is_primary
                 /\ ~c.email_addresses[1].is_phone
                 /\ Len(EventsToday(c)) = 1) =>
                    /\ Len(calls) = 1
                    /\ calls[1].kind = "email"
                    /\ calls[1].to = c.email_addresses[1]
                    /\ calls[1].subject # NoneStr /\ calls[1].subject # <<>>
                    /\ calls[1].body # NoneStr /\ calls[1].body # <<>>

\* The email-only scenario, finished, the one email delivered
C3_Witness ==
    /\ pc = "done"
    /\ OnlyEmail /\ ~dry_run
    /\ \E i \in 1..Len(contacts) :
         /\ contacts[i].mobile_numbers = <<>>
         /\ contacts[i].email_addresses = <<EmailAddress(PlainAddress, TRUE, FALSE, FALSE)>>
         /\ Len(EventsToday(contacts[i])) = 1
         /\ Len(CallsOf(i)) = 1
         /\ CallsOf(i)[1].outcome = "delivered"
         /\ CallsOf(i)[1].rule = "email_rule"

(* C4 as stated: the rules are tried in the order email-mobile, text,
   email-mobile-wide, email-plain, restricted to the supported protocols, a rule
   only after every earlier one returned False or raised; and with both
   protocols supported the text rule is never called for a contact that has a
   phone-derived address and a US mobile number. *)
RuleOrder == <<"email_mobile_rule", "text_rule", "email_mobile_wide_rule", "email_rule">>

RuleProtocol(rule) == IF rule = "text_rule" THEN "text" ELSE "email"

SupportedRuleOrder ==
    SelectSeq(RuleOrder,
              LAMBDA r : IF RuleProtocol(r) = "text" THEN settings_text = "auth"
                         ELSE settings_email)

HasBothChannels(c) ==
    /\ \E k \in 1..Len(c.email_addresses) : c.email_addresses[k].is_phone
    /\ get_us_mobile_number(c) # None

RulesTriedInOrder ==
    \A i \in 1..Len(contacts) :
        LET tried == AttemptsOf(i)
        IN  /\ Len(tried) <= Len(SupportedRuleOrder)
            /\ \A k \in 1..Len(tried) :
                  /\ tried[k].rule = SupportedRuleOrder[k]
                  /\ k < Len(tried) => tried[k].outcome \in {"returned_false", "raised"}

C4_TextNeverTriedAfterEmailMobile ==
    /\ RulesTriedInOrder
    /\ BothProtocols =>
         \A k \in 1..Len(attempts) :
             attempts[k].rule = "text_rule" => ~HasBothChannels(contacts[attempts[k].contact])

(* C4, amended: the same order; and with both protocols supported, a contact
   that has a phone-derived address and a US mobile number is tried by the
   email-mobile rule first, and the text rule is called for it only after the
   email-mobile rule raised. *)
C4_RuleOrder ==
    /\ RulesTriedInOrder
    /\ BothProtocols =>
         \A i \in 1..Len(contacts) :
             LET tried == AttemptsOf(i)
             IN  (HasBothChannels(contacts[i]) /\ tried # <<>>) =>
                     /\ tried[1].rule = "email_mobile_rule"
                     /\ tried[1].outcome # "returned_false"
                     /\ Len(tried) > 1 =>
                          tried[1].outcome = "raised" /\ tried[2].rule = "text_rule"

\* Both protocols, a contact with both channels served by the email-mobile rule
\* alone, its two messages delivered
C4_Witness ==
    /\ pc = "done"
    /\ BothProtocols /\ ~dry_run
    /\ \E i \in 1..Len(contacts) :
         /\ HasBothChannels(contacts[i])
         /\ AttemptsOf(i) = <<[contact |-> i, rule |-> "email_mobile_rule",
                               outcome |-> "returned_true"]>>
         /\ Len(CallsOf(i)) = 2
         /\ \A k \in 1..2 : CallsOf(i)[k].outcome = "delivered"

(* C5: when the first rule that resolves a channel for a contact raises, the
   message of the contact is handed to the transport by the next rule, in
   order, that resolves a channel. *)
C5_NextRuleSendsAfterRaise ==
    pc = "done" =>
        \A i \in 1..Len(contacts) :
            LET resolved == SelectSeq(AttemptsOf(i), LAMBDA a : a.outcome # "returned_false")
            IN  (Len(resolved) >= 2 /\ resolved[1].outcome = "raised") =>
                    \E k \in 1..Len(sent) :
                        /\ sent[k].contact = i
                        /\ sent[k].rule = resolved[2].rule
                        /\ sent[k].outcome \in {"delivered", "raised"}

(* C6: a run with a supported protocol calls apply for every contact of the
   list exactly once, in list order, and ends: a contact that is skipped or a
   rule that raises does not keep the following contacts from being processed. *)
AppliedInOrder ==
    /\ Len(applied) <= Len(contacts)
    /\ \A k \in 1..Len(applied) : applied[k] = k

\* A measure of the run's position that every step raises and the list bounds
Progress ==
    LET width == Len(rules) + 3
    IN  IF pc = "start" THEN 0
        ELSE IF pc = "done" THEN (Len(contacts) + 2) * width
        ELSE idx * width + (IF pc = "rules" THEN rule_idx ELSE 0)

\* Some action of the run is enabled: ENABLED Next, action by action
CanStep ==
    \/ pc = "start"
    \/ pc = "loop" /\ idx >= 1
    \/ /\ pc = "rules"
       /\ idx \in 1..Len(contacts)
       /\ \/ rule_idx > Len(rules)
          \/ /\ rule_idx \in 1..Len(rules)
             /\ LET c == contacts[idx]
                    name == rules[rule_idx]
                    r == CASE name = "email_mobile_rule" -> email_mobile_rule(c)
                           [] name = "text_rule" -> text_rule(c)
                           [] name = "email_mobile_wide_rule" -> email_mobile_wide_rule(c)
                           [] name = "email_rule" -> email_rule(c)
                IN  rule_call(name, r, idx, send_dates, saluation) # {}

C6_State ==
    /\ AppliedInOrder
    /\ (pc = "done" /\ supported_protocols # <<>>) => Len(applied) = Len(contacts)
    /\ pc = "done" \/ CanStep
    /\ Progress <= (Len(contacts) + 2) * (Len(rules) + 3)

C6_EveryContactOnce == []C6_State /\ [][Progress' > Progress]_vars

\* A finished run of two contacts: the first opted out, the second with a rule
\* that raised before another rule made its call
C6_Witness ==
    /\ pc = "done"
    /\ Len(contacts) = 2 /\ applied = <<1, 2>>
    /\ OptedOut(contacts[1])
    /\ \E k \in 1..Len(attempts) : attempts[k].contact = 2 /\ attempts[k].outcome = "raised"
    /\ \E k \in 1..Len(sent) : sent[k].contact = 2 /\ sent[k].outcome = "delivered"

(* C7 as stated: once a rule resolved a channel for a contact, no later rule
   is called for that contact, also when the send of the rule failed. *)
C7_ResolvedRuleIsLast ==
    \A k \in 1..Len(attempts) :
        attempts[k].outcome # "returned_false" =>
            \A j \in (k + 1)..Len(attempts) : attempts[j].contact # attempts[k].contact

(* C7, amended: once a rule resolved a channel for a contact and returned
   without raising, no later rule is called for that contact, also when its
   sends delivered nothing; after a rule whose send raised, the next rule of the
   list is called. *)
C7_ReturnedRuleIsLast ==
    /\ \A k \in 1..Len(attempts) :
          attempts[k].outcome = "returned_true" =>
              \A j \in (k + 1)..Len(attempts) : attempts[j].contact # attempts[k].contact
    /\ pc = "done" =>
          \A k \in 1..Len(attempts) :
              (attempts[k].outcome = "raised" /\ attempts[k].rule # rules[Len(rules)]) =>
                  \E j \in (k + 1)..Len(attempts) : attempts[j].contact = attempts[k].contact

\* Both protocols: the text rule resolved a number and returned without a
\* message delivered, and no email rule after it was called for the contact
C7_Witness ==
    /\ pc = "done"
    /\ BothProtocols /\ ~dry_run
    /\ \E i \in 1..Len(contacts) :
         LET tried == AttemptsOf(i)
         IN  /\ tried # <<>>
             /\ tried[Len(tried)].rule = "text_rule"
             /\ tried[Len(tried)].outcome = "returned_true"
             /\ get_all_mobile_email_addresses(contacts[i]) # <<>>
             /\ CallsOf(i) # <<>>
             /\ \A k \in 1..Len(CallsOf(i)) : CallsOf(i)[k].outcome # "delivered"

(* C8: for every list of 0 to MaxNumbers mobile numbers, in every combination
   of flags and of US and non-US numbers, get_us_mobile_number returns the
   first bot-flagged US number if there is one, else the first primary-flagged
   US number, else the first US number, else None; never a non-US number. *)
\* The numbers of the pool that are US: ten digits, alone or after "+1 "
UsNumbers == {UsNumber, UsNumberPlus, UsNumberSpace}

\* The first position of s that satisfies keep, 0 when there is none
FirstPosition(s, keep) ==
    IF \E k \in 1..Len(s) : keep[k]
    THEN CHOOSE k \in 1..Len(s) : keep[k] /\ \A j \in 1..(k - 1) : ~keep[j]
    ELSE 0

C8_PreferredUsNumber ==
    op = "get_us_mobile_number" =>
        LET ns == contacts[1].mobile_numbers
            us == [k \in 1..Len(ns) |-> ns[k].number \in UsNumbers]
            bot == FirstPosition(ns, [k \in 1..Len(ns) |-> us[k] /\ ns[k].is_bot])
            primary == FirstPosition(ns, [k \in 1..Len(ns) |-> us[k] /\ ns[k].is_primary])
            first == FirstPosition(ns, us)
        IN  /\ result = (IF bot # 0 THEN ns[bot]
                         ELSE IF primary # 0 THEN ns[primary]
                         ELSE IF first # 0 THEN ns[first]
                         ELSE None)
            /\ result # None => result.number \in UsNumbers

\* Three numbers: a bot-flagged one that is not US, a primary US one, a
\* bot-flagged US one, which is returned
C8_Witness ==
    /\ op = "get_us_mobile_number"
    /\ contacts[1].mobile_numbers =
          <<PhoneNumber(DashedNumber, TRUE, TRUE), PhoneNumber(UsNumber, TRUE, FALSE),
            PhoneNumber(UsNumberSpace, FALSE, TRUE)>>
    /\ result = PhoneNumber(UsNumberSpace, FALSE, TRUE)

(* C9: get_primary_mobile_email_address returns, among the phone-derived
   addresses of the contact, the first bot-flagged one if there is one, else
   the first primary-flagged one, else the first one, else None. *)
C9_BotBeforePrimary ==
    op = "get_primary_mobile_email_address" =>
        LET es == SelectSeq(contacts[1].email_addresses, LAMBDA e : e.is_phone)
            bot == FirstPosition(es, [k \in 1..Len(es) |-> es[k].is_bot])
            primary == FirstPosition(es, [k \in 1..Len(es) |-> es[k].is_primary])
        IN  result = (IF bot # 0 THEN es[bot]
                      ELSE IF primary # 0 THEN es[primary]
                      ELSE IF es # <<>> THEN es[1]
                      ELSE None)

(* C10: get_all_mobile_email_addresses returns the gateway addresses of a
   bot-flagged number if there is one that has any, else those of a
   primary-flagged number, else the first non-empty list of addresses among
   the numbers in list order; the empty list only when no number has any. *)
C10_FirstNonEmptySet ==
    op = "get_all_mobile_email_addresses" =>
        LET ns == contacts[1].mobile_numbers
            has == [k \in 1..Len(ns) |-> get_email_addresses(ns[k]) # <<>>]
            bot == FirstPosition(ns, [k \in 1..Len(ns) |-> has[k] /\ ns[k].is_bot])
            primary == FirstPosition(ns, [k \in 1..Len(ns) |-> has[k] /\ ns[k].is_primary])
            first == FirstPosition(ns, has)
        IN  result = (IF bot # 0 THEN get_email_addresses(ns[bot])
                      ELSE IF primary # 0 THEN get_email_addresses(ns[primary])
                      ELSE IF first # 0 THEN get_email_addresses(ns[first])
                      ELSE <<>>)

(* C11: get_primary_email_address returns the first bot-flagged address of the
   contact if there is one, else the first primary-flagged one, else None; an
   address that is neither bot-flagged nor primary-flagged is never returned. *)
C11_BotThenPrimaryEmail ==
    op = "get_primary_email_address" =>
        LET es == contacts[1].email_addresses
            bot == FirstPosition(es, [k \in 1..Len(es) |-> es[k].is_bot])
            primary == FirstPosition(es, [k \in 1..Len(es) |-> es[k].is_primary])
        IN  /\ result = (IF bot # 0 THEN es[bot]
                         ELSE IF primary # 0 THEN es[primary]
                         ELSE None)
            /\ result # None => (result.is_bot \/ result.is_primary)

\* An unflagged address, a primary one and a bot one: the bot one is returned
C11_Witness ==
    /\ op = "get_primary_email_address"
    /\ contacts[1].email_addresses =
          <<EmailAddress(PlainAddress, FALSE, FALSE, FALSE),
            EmailAddress(GatewayAddress, TRUE, TRUE, FALSE),
            EmailAddress(PlainAddress, FALSE, FALSE, TRUE)>>
    /\ result = EmailAddress(PlainAddress, FALSE, FALSE, TRUE)

(* C12: the addresses get_email_addresses derives from a number are, for a US
   number, its last ten digits followed by "@" and the domain of each enabled
   US carrier, in carrier order, carrying the flags of the number, and none
   for a number that is not US; no derived address has the domain of the
   disabled carrier; and get_mobile_carrier classifies an address with the
   domain of a carrier by that carrier, the disabled one included. *)
LastTenDigits(number) ==
    LET digits == SelectSeq(number, LAMBDA ch : ch \in Digits)
    IN  SubSeq(digits, Len(digits) - 9, Len(digits))

DomainOf(address) == address[Len(address)]

C12_GatewayAddresses ==
    /\ op = "get_email_addresses" =>
          LET n == result.number
              enabled == SelectSeq(Carriers, LAMBDA carrier : carrier.enabled)
          IN  /\ n.number \in UsNumbers =>
                    result.addresses =
                        [k \in 1..Len(enabled) |->
                            EmailAddress(LastTenDigits(n.number) \o <<"@", enabled[k].domain>>,
                                         n.is_primary, TRUE, n.is_bot)]
              /\ n.number \notin UsNumbers => result.addresses = <<>>
              /\ \A k \in 1..Len(result.addresses) :
                    DomainOf(result.addresses[k].address) # "txt.att.net"
    /\ op = "get_mobile_carrier" =>
          \A k \in 1..Len(Carriers) :
              DomainOf(result.address.address) = Carriers[k].domain =>
                  result.carrier = Carriers[k].name

\* The addresses of "+1 2025550001", flagged bot: three, none of the disabled
\* carrier
C12_Witness ==
    /\ op = "get_email_addresses"
    /\ result.number = PhoneNumber(UsNumberSpace, FALSE, TRUE)
    /\ Len(result.addresses) = 3
    /\ result.addresses[1].address =
          <<"2", "0", "2", "5", "5", "5", "0", "0", "0", "1", "@", "msg.fi.google.com">>

\* An address of the disabled carrier is classified as that carrier's
C12_WitnessDisabledCarrier ==
    /\ op = "get_mobile_carrier"
    /\ result.address.address = AttAddress
    /\ result.carrier = "ATT"
    /\ ~result.enabled

(* C14: is_today(test) is true exactly when the month and the day of test equal
   the month and the day of the event, whatever the two years: the event of
   2001-03-15 is today on 2030-03-15 and not on 2030-03-16 nor on 2030-04-15. *)
C14_MonthAndDayOnly ==
    op = "is_today" =>
        /\ result.value <=> (/\ result.test.month = result.dt.date.month
                             /\ result.test.day = result.dt.date.day)
        /\ (result.dt.date = [year |-> 2001, month |-> 3, day |-> 15]
              /\ result.test.year = 2030) =>
                (result.value <=> (result.test.month = 3 /\ result.test.day = 15))

\* The event of 2001-03-15 on 2030-03-15
C14_Witness ==
    /\ op = "is_today"
    /\ result.dt.date = [year |-> 2001, month |-> 3, day |-> 15]
    /\ result.test = [year |-> 2030, month |-> 3, day |-> 15]
    /\ result.value

(* C13: every message of a contact is formatted with one saluation: the
   BOT_SALUATION custom-field value when the contact has one that is not
   empty, else the nickname when it has one that is not empty, else the given
   name; the same for every rule and every date event of the contact. *)
ExpectedSaluation(c) ==
    IF BOT_SALUATION \in DOMAIN c.metadata /\ c.metadata[BOT_SALUATION] # <<>>
    THEN c.metadata[BOT_SALUATION]
    ELSE IF c.nickname # NoneStr /\ c.nickname # <<>> THEN c.nickname
    ELSE c.given_name

C13_OneSaluationPerContact ==
    /\ pc = "rules" => saluation = ExpectedSaluation(contacts[idx])
    /\ \A k \in 1..Len(sent) :
          LET c == contacts[sent[k].contact]
              type == EventsToday(c)[sent[k].event].type
          IN  /\ sent[k].body \in message(type, ExpectedSaluation(c))
              /\ sent[k].subject # NoneStr =>
                    sent[k].subject \in subject(type, ExpectedSaluation(c))

\* A contact with a nickname, an empty custom saluation and two events, called
\* "Bobby" in every message of the two rules that sent for it
C13_Witness ==
    /\ pc = "done"
    /\ \E i \in 1..Len(contacts) :
         /\ contacts[i].nickname = Bobby
         /\ BOT_SALUATION \in DOMAIN contacts[i].metadata
         /\ Len(EventsToday(contacts[i])) = 2
         /\ Cardinality({CallsOf(i)[k].rule : k \in 1..Len(CallsOf(i))}) = 2
         /\ \E k \in 1..Len(CallsOf(i)) : CallsOf(i)[k].event = 2
         /\ \A k \in 1..Len(CallsOf(i)) : Contains(CallsOf(i)[k].body, Bobby)

(* C16: a call of the text transport is made only in a run where text is
   supported and a call of the email transport only in a run where email is
   supported; a run with no supported protocol ends without a rule call and
   without a transport call. *)
C16_SendOnlyWhenSupported ==
    /\ \A k \in 1..Len(sent) :
          /\ sent[k].kind = "text" => settings_text = "auth"
          /\ sent[k].kind = "email" => settings_email
    /\ (~settings_email /\ settings_text # "auth") =>
          /\ sent = <<>> /\ attempts = <<>> /\ applied = <<>>
          /\ pc \in {"start", "done"}

\* Only email supported, text configured without credentials: a contact with a
\* US number, no address and an event today gets no text call; its message goes
\* out by email through the gateway addresses of the number
C16_Witness ==
    /\ pc = "done"
    /\ OnlyEmail /\ settings_text = "noauth" /\ ~dry_run
    /\ \E i \in 1..Len(contacts) :
         /\ contacts[i].email_addresses = <<>>
         /\ get_us_mobile_number(contacts[i]) # None
         /\ EventsToday(contacts[i]) # <<>>
         /\ CallsOf(i) # <<>>
         /\ \A k \in 1..Len(CallsOf(i)) :
               /\ CallsOf(i)[k].kind = "email"
               /\ CallsOf(i)[k].rule = "email_mobile_wide_rule"
               /\ CallsOf(i)[k].outcome = "delivered"

(* C17 as stated: for a contact for which some rule resolved a channel, exactly
   one transport call is made per date event of the reference date, all by one
   rule and to one channel. *)
C17_OneSendPerEvent ==
    pc = "done" =>
        \A i \in 1..Len(contacts) :
            LET calls == CallsOf(i)
            IN  (\E k \in 1..Len(AttemptsOf(i)) : AttemptsOf(i)[k].outcome # "returned_false") =>
                    /\ Len(calls) = Len(EventsToday(contacts[i]))
                    /\ \A k \in 1..Len(calls) :
                          /\ calls[k].event = k
                          /\ calls[k].rule = calls[1].rule
                          /\ calls[k].to = calls[1].to

(* C17, amended: a rule that resolved a channel and returned makes exactly one
   transport call per date event of the reference date, in event order, all to
   the channel it resolved, and when no rule raised for the contact these are
   all the calls made for it; a rule that raised made one call per event up to
   the call that raised, and the calls of the rule tried after it start again
   at the first event. *)
CallsBy(i, rule) == SelectSeq(CallsOf(i), LAMBDA m : m.rule = rule)

C17_OneSendPerEventOfReturningRule ==
    \A i \in 1..Len(contacts) :
        LET n == Len(EventsToday(contacts[i]))
            tried == AttemptsOf(i)
        IN  /\ \A a \in 1..Len(tried) :
                  LET calls == CallsBy(i, tried[a].rule)
                  IN  /\ \A k \in 1..Len(calls) :
                            /\ calls[k].event = k
                            /\ calls[k].to = calls[1].to
                            /\ calls[k].outcome = "raised" => k = Len(calls)
                      /\ tried[a].outcome = "returned_true" =>
                            Len(calls) = n /\ calls[n].outcome # "raised"
                      /\ tried[a].outcome = "raised" =>
                            Len(calls) \in 1..n /\ calls[Len(calls)].outcome = "raised"
                      /\ tried[a].outcome = "returned_false" => calls = <<>>
            /\ (\A a \in 1..Len(tried) : tried[a].outcome # "raised") =>
                  \A k \in 1..Len(CallsOf(i)) : CallsOf(i)[k].rule = CallsOf(i)[1].rule

\* Only email supported: a contact with two events of the reference date and
\* one of another day, served by one rule with two delivered calls
C17_Witness ==
    /\ pc = "done"
    /\ OnlyEmail /\ ~dry_run
    /\ \E i \in 1..Len(contacts) :
         /\ Len(contacts[i].dates) = 3
         /\ Len(EventsToday(contacts[i])) = 2
         /\ Len(AttemptsOf(i)) = 1
         /\ Len(CallsOf(i)) = 2
         /\ CallsOf(i)[1].event = 1 /\ CallsOf(i)[2].event = 2
         /\ \A k \in 1..2 : CallsOf(i)[k].outcome = "delivered"

(* C18: in a run no rule makes more than one transport call for the same
   contact and the same date event, also after a call of the run raised. *)
C18_AtMostOncePerRuleAndEvent ==
    \A j, k \in 1..Len(sent) :
        (j # k /\ sent[j].contact = sent[k].contact /\ sent[j].rule = sent[k].rule) =>
            sent[j].event # sent[k].event

\* A call for the first event of a contact raised, and the next rule made one
\* call for each of the two events
C18_Witness ==
    /\ pc = "done"
    /\ \E i \in 1..Len(contacts) :
         LET calls == CallsOf(i)
         IN  /\ Len(calls) = 3
             /\ calls[1].outcome = "raised" /\ calls[1].event = 1
             /\ calls[2].rule # calls[1].rule
             /\ calls[2].event = 1 /\ calls[3].event = 2
             /\ calls[2].outcome = "delivered" /\ calls[3].outcome = "delivered"

(* C20: a rule is called, and a transport call made, for a contact only when one
   of its date events has the month and the day of the reference date, and the
   events handed to the rules are exactly those events, in list order. *)
C20_OnlyEventsOfReferenceDate ==
    /\ \A k \in 1..Len(attempts) : EventsToday(contacts[attempts[k].contact]) # <<>>
    /\ \A k \in 1..Len(sent) :
          sent[k].event \in 1..Len(EventsToday(contacts[sent[k].contact]))
    /\ pc = "rules" => send_dates = EventsToday(contacts[idx])

\* A finished run: a contact whose dates all fall on other days and a contact
\* with no date, both with channels, apply called for both, no rule called
C20_Witness ==
    /\ pc = "done"
    /\ BothProtocols /\ ~dry_run
    /\ Len(contacts) = 2 /\ applied = <<1, 2>>
    /\ contacts[1].dates = <<BirthdayNextDay, AnniversaryNextMonth>>
    /\ contacts[2].dates = <<>>
    /\ contacts[1].email_addresses # <<>> /\ contacts[2].email_addresses # <<>>
    /\ attempts = <<>> /\ sent = <<>>

(* C15: after a contact list was saved to the contacts cache, a get_contacts
   call without groups that is answered from the cache, by the Contacts object
   that saved the list or by one that has not read the cache before, returns
   the saved list: the same contacts, equal in every field, in the same
   order. *)
C15_SaveThenLoad ==
    (/\ op = "get_contacts"
     /\ result.lookup = "hit"
     /\ result.groups = {}
     /\ saved # <<>>
     /\ (result.fresh \/ saved[1].by = result.instance)) =>
        result.value = <<saved[1].contacts>>

\* A Contacts object that had not read the cache returns the two contacts
\* another object saved, with their dates, addresses, groups and custom fields
C15_Witness ==
    /\ op = "get_contacts"
    /\ result.lookup = "hit" /\ result.fresh /\ result.groups = {}
    /\ saved # <<>>
    /\ saved[1].by # result.instance
    /\ result.value = <<saved[1].contacts>>
    /\ Len(saved[1].contacts) = 2
    /\ \E k \in 1..2 :
         LET c == saved[1].contacts[k]
         IN  /\ Len(c.dates) = 2
             /\ c.home_addresses # <<>>
             /\ c.groups # <<>>
    /\ \E k \in 1..2 : DOMAIN saved[1].contacts[k].metadata # {}

(* C19: a get_contacts or get_profile call that cannot be answered from the
   cache, because the Contacts object has no cache path, or there is no file
   at the path, or the cache has no value for the component, and whose
   directory requests were answered, returns and does not raise. *)
C19_AbsentCacheIsMiss ==
    (/\ op \in {"get_contacts", "get_profile"}
     /\ result.lookup \in {"no_path", "no_file", "no_value"}
     /\ result.outcome # "RefreshError") =>
        result.outcome = "returned"

\* A get_contacts call without a cache file that returned the fetched contacts
C19_MissReturnsFetch ==
    /\ op = "get_contacts"
    /\ result.lookup = "no_file"
    /\ result.outcome = "returned"
    /\ result.value # << <<>> >>

-----------------------------------------------------------------------------
(* Calls of ZipCode.get_timezone and ZipCode.save on one ZipCode object, built
   on a cache path or on none.  A lookup is answered or raises, as a request
   that gets no response does; lookups holds every lookup made *)

MaxLookups == 4

PostalCodes ==
    {<<"1", "0", "0", "2", "2">>, <<"1", "0", "0", "2", "2", "-", "1", "2", "3", "4">>,
     <<"6", "0", "6", "0", "1">>}

InitZip ==
    /\ settings_email = FALSE
    /\ settings_text = "none"
    /\ groups = {}
    /\ rules = <<>>
    /\ contacts = <<>>
    /\ dry_run = FALSE
    /\ pc = "zipcode"
    /\ idx = 0
    /\ rule_idx = 0
    /\ send_dates = <<>>
    /\ saluation = NoneStr
    /\ sent = <<>>
    /\ attempts = <<>>
    /\ applied = <<>>
    /\ op = "none"
    /\ result = None
    /\ directory = NoDirectory
    /\ cache_file = <<>>
    /\ instances = NoInstances
    /\ saved = <<>>
    /\ templates = ShippedTemplates
    /\ zipcode_file \in ZipCodeFiles
    /\ \E path \in BOOLEAN : zipcode = ZipCode(path, zipcode_file)
    /\ lookups = <<>>

\* The state after a call on the ZipCode
ZipCodeCalled(zc, file, looked_up, record) ==
    /\ pc = "zipcode"
    /\ zipcode' = zc
    /\ zipcode_file' = file
    /\ lookups' = lookups \o looked_up
    /\ op' = record.fn
    /\ result' = record
    /\ UNCHANGED <<settings_email, settings_text, groups, rules, contacts, dry_run, pc,
                   idx, rule_idx, send_dates, saluation, sent, attempts, applied,
                   directory, templates>>
    /\ UNCHANGED cacheVars

\* ZipCode.get_timezone(Country.US, zip_code)
GetTimezone(zip_code) ==
    LET call == get_timezone(zipcode, zip_code)
        record == [fn |-> "get_timezone", key |-> <<Country_US, zip_code>>,
                   looked_up |-> call.looked_up # <<>>]
    IN  IF call.looked_up = <<>>
        THEN ZipCodeCalled(call.zipcode, zipcode_file, <<>>, record @@ [outcome |-> call.tz])
        ELSE /\ Len(lookups) < MaxLookups
             /\ \/ ZipCodeCalled(call.zipcode, zipcode_file, call.looked_up,
                                 record @@ [outcome |-> call.tz])
                \/ ZipCodeCalled(zipcode, zipcode_file,
                                 <<[key |-> record.key, outcome |-> "ConnectionError"]>>,
                                 record @@ [outcome |-> "ConnectionError"])

\* ZipCode.save()
Save ==
    LET record == [fn |-> "save", key |-> None, looked_up |-> FALSE]
    IN  IF ~zipcode.is_dirty
        THEN ZipCodeCalled(zipcode, zipcode_file, <<>>, record @@ [outcome |-> "returned"])
        ELSE IF ~zipcode.cache_file
        THEN ZipCodeCalled([zipcode EXCEPT !.is_dirty = FALSE], zipcode_file, <<>>,
                           record @@ [outcome |-> "returned"])
        ELSE \/ ZipCodeCalled([zipcode EXCEPT !.is_dirty = FALSE], <<pack(zipcode.cache)>>,
                              <<>>, record @@ [outcome |-> "returned"])
             \/ ZipCodeCalled(zipcode, zipcode_file, <<>>, record @@ [outcome |-> "OSError"])

NextZip ==
    \/ \E zip_code \in PostalCodes : GetTimezone(zip_code)
    \/ Save

SpecZip == InitZip /\ [][NextZip]_vars

(* C21 as stated: a transport call carries a subject exactly when it is made by
   the email-mobile rule, the first email rule of the rule order; the text
   rule, the email-mobile-wide rule and the plain email rule pass none. *)
C21_SubjectOfFirstEmailRule ==
    \A k \in 1..Len(sent) :
        sent[k].subject # NoneStr <=> sent[k].rule = "email_mobile_rule"

(* C21, amended: a transport call carries a subject exactly when it is made by
   the plain email rule, the last rule of the rule order, and the subject is
   one of the subject templates of the event's type filled with the contact's
   saluation; the text rule and the two gateway email rules (email-mobile,
   email-mobile-wide) pass none. *)
C21_SubjectOfPlainEmailRule ==
    \A k \in 1..Len(sent) :
        LET c == contacts[sent[k].contact]
        IN  /\ sent[k].subject # NoneStr <=> sent[k].rule = "email_rule"
            /\ sent[k].rule = "email_rule" =>
                  sent[k].subject \in subject(EventsToday(c)[sent[k].event].type,
                                              contact_saluation(c))

\* Both protocols: a call of the email-mobile rule and a call of the text rule
\* without a subject, and a delivered call of the plain email rule with one
C21_Witness ==
    /\ pc = "done"
    /\ BothProtocols /\ ~dry_run
    /\ \E k \in 1..Len(sent) :
          sent[k].rule = "email_mobile_rule" /\ sent[k].subject = NoneStr
    /\ \E k \in 1..Len(sent) : sent[k].rule = "text_rule" /\ sent[k].subject = NoneStr
    /\ \E k \in 1..Len(sent) :
          /\ sent[k].rule = "email_rule"
          /\ sent[k].outcome = "delivered"
          /\ sent[k].subject = <<"Happy Birthday ">> \o Amy

(* C27: in a run with dry_run = true no transport call goes on to the SMTP
   session or to the SMS client: every call of email.send_message and of
   text.send_message returns at the is_supported test or at the dry_run
   test. *)
C27_DryRunSendsNothing ==
    dry_run => \A k \in 1..Len(sent) : sent[k].outcome \in {"dry_run", "not_supported"}

\* A finished dry run with both protocols: an email call that returned at the
\* dry_run test and a text call that returned before the client
C27_Witness ==
    /\ pc = "done"
    /\ BothProtocols /\ dry_run
    /\ \E k \in 1..Len(sent) : sent[k].kind = "email" /\ sent[k].outcome = "dry_run"
    /\ \E k \in 1..Len(sent) : sent[k].kind = "text" /\ sent[k].outcome = "not_supported"

(* C26: when Messaging was built with groups, a transport call is made only
   for a contact that is a member, names compared casefolded, of one of the
   groups. *)
C26_OnlyMembersReceive ==
    groups # {} =>
        \A k \in 1..Len(sent) : is_member(contacts[sent[k].contact], groups)

(* C25: a run of send_messages or of dry_run changes neither the contact list
   it is given, nor the profile and the contact list of the Contacts object's
   _cache, nor the cache file, whatever the rules of the run returned or
   raised. *)
C25_State ==
    /\ instances[1].memo = << [profile |-> <<CachedProfile>>, contacts |-> <<contacts>>] >>
    /\ cache_file = <<pickle_dump(<<CachedProfile>>, <<contacts>>)>>

C25_InputsUnchanged ==
    /\ []C25_State
    /\ [][contacts' = contacts /\ instances' = instances /\ cache_file' = cache_file]_vars

\* A finished run of a Messaging with groups over a list with a contact that is
\* in none of them: a rule raised and a rule delivered
C25_Witness ==
    /\ pc = "done"
    /\ groups # {} /\ ~dry_run
    /\ \E i \in 1..Len(contacts) : ~is_member(contacts[i], groups)
    /\ \E k \in 1..Len(attempts) : attempts[k].outcome = "raised"
    /\ \E k \in 1..Len(sent) : sent[k].outcome = "delivered"
    /\ C25_State

(* C22: when a rule call raises because the template list of the event's type
   is empty, no transport call of it having raised, the run ends there: no
   rule is called after it and apply is called for no later contact. *)
TemplateFailure(k) ==
    LET calls == CallsBy(attempts[k].contact, attempts[k].rule)
    IN  /\ attempts[k].outcome = "raised"
        /\ calls = <<>> \/ calls[Len(calls)].outcome # "raised"

C22_EmptyTemplateListIsFatal ==
    \A k \in 1..Len(attempts) :
        TemplateFailure(k) => k = Len(attempts) /\ Len(applied) = attempts[k].contact

\* A finished run with an empty list of anniversary messages: two rules called
\* for the first contact raised at the template, one after the other, and the
\* second contact got its birthday message
C22_RunGoesOn ==
    /\ pc = "done"
    /\ templates.anniversary.MESSAGES = <<>>
    /\ Len(contacts) = 2 /\ applied = <<1, 2>>
    /\ \E j, k \in 1..Len(attempts) :
          /\ j < k
          /\ attempts[j].contact = 1 /\ TemplateFailure(j)
          /\ attempts[k].contact = 1 /\ TemplateFailure(k)
    /\ CallsOf(1) = <<>>
    /\ \E k \in 1..Len(sent) : sent[k].contact = 2 /\ sent[k].outcome = "delivered"

(* C23: for every list of raw email entries, _get_email_addresses returns, in
   input order, one address for each entry whose casefolded type is home,
   mobile or phone and for no other entry, with the entry's value, and marked
   is_phone exactly when the casefolded type is phone or mobile. *)
KeptEntries(es) ==
    SelectSeq(es, LAMBDA e : casefold(e.type) \in {HOME_LABEL, MOBILE_LABEL, PHONE_LABEL})

C23_EmailNormalization ==
    op = "_get_email_addresses" =>
        LET kept == KeptEntries(result.emailAddresses)
        IN  /\ result.outcome.raised = "no"
            /\ [k \in 1..Len(result.outcome.value[1]) |->
                   [address |-> result.outcome.value[1][k].address,
                    is_phone |-> result.outcome.value[1][k].is_phone]]
               = [k \in 1..Len(kept) |->
                   [address |-> kept[k].value,
                    is_phone |-> casefold(kept[k].type) \in {PHONE_LABEL, MOBILE_LABEL}]]

\* _get_email_addresses passed over an entry labelled "work" and returned the
\* empty list
C23_NothingKept ==
    /\ op = "_get_email_addresses"
    /\ Len(result.emailAddresses) = 1
    /\ result.emailAddresses[1].type = <<"w", "o", "r", "k">>
    /\ result.outcome = Returned(<<>>)

\* The contact list an unfiltered fetch of the directory gives
FullList == fetch_contacts(directory, {}, zipcode)

\* The contact lists of the cache files the calls may start with
EarlierLists == {pickle_load(f[1]).contacts : f \in CacheFiles \ {<<>>}}

(* C28: the contact list written to the contacts cache is the result of a fetch
   without groups; a get_contacts call with a non-empty groups filter leaves
   the cache file as it was, whatever save_cache is; and a get_contacts call
   without groups that is answered from the cache returns the full list of the
   directory, or the list the file held before the calls. *)
C28_OnlyFullListsCached ==
    /\ [](saved # <<>> => <<saved[1].contacts>> = FullList.value)
    /\ []((op = "get_contacts" /\ result.groups = {} /\ result.lookup = "hit") =>
             result.value \in EarlierLists \cup {FullList.value})
    /\ [][(op' = "get_contacts" /\ result'.groups # {}) =>
             (cache_file' = cache_file /\ saved' = saved)]_vars

\* A call with a groups filter and save_cache = true, by an object with a cache
\* path, fetched one of the two contacts of the directory and wrote no file
C28_Witness ==
    /\ op = "get_contacts"
    /\ result.groups # {} /\ result.save_cache
    /\ instances[result.instance].cache
    /\ result.lookup = "no_file" /\ result.outcome = "returned"
    /\ Len(result.value[1]) = 1 /\ Len(FullList.value[1]) = 2
    /\ cache_file = <<>> /\ saved = <<>>

\* The postal codes of the home addresses of a contact list, contact by contact
RECURSIVE postal_codes_of(_)
postal_codes_of(cs) ==
    IF cs = <<>> THEN <<>>
    ELSE [k \in 1..Len(Head(cs).home_addresses) |-> Head(cs).home_addresses[k].postal_code]
         \o postal_codes_of(Tail(cs))

(* C24, as stated: the get_timezone calls of a get_contacts pass over the
   directory have pairwise different postal codes. *)
C24_OneCallPerPostalCode ==
    op = "get_contacts" =>
        \A j, k \in 1..Len(result.timezone_calls) :
            j < k => result.timezone_calls[j] # result.timezone_calls[k]

(* C24, amended: a get_contacts pass that fetched the contacts it returns
   called get_timezone once for every home address of these contacts, in their
   order, a postal code that occurs on several of them being passed again; it
   is the remote lookup of the ZipCode that is not made twice for a postal
   code, in one pass or in several. *)
C24_OneCallPerHomeAddress ==
    /\ (op = "get_contacts" /\ result.lookup # "hit" /\ result.outcome = "returned") =>
           result.timezone_calls = postal_codes_of(result.value[1])
    /\ \A j, k \in 1..Len(lookups) : j < k => lookups[j].key # lookups[k].key

\* A pass over two contacts with four home addresses: four get_timezone calls,
\* three of them with the same postal code, and two lookups
C24_Witness ==
    /\ op = "get_contacts" /\ result.lookup # "hit" /\ result.outcome = "returned"
    /\ Len(result.value[1]) = 2
    /\ Len(result.timezone_calls) = 4
    /\ Cardinality({result.timezone_calls[k] : k \in 1..4}) = 2
    /\ Len(lookups) = 2

(* C30: a ZipCode looks up only keys its cache does not hold, and a key whose
   lookup was answered, with a timezone or with none, is not looked up again;
   a get_timezone call for a key the cache holds returns the cached value and
   leaves the cache, the dirty flag and the file as they were; and after every
   call the dirty flag is true exactly when an entry was added since the last
   save() that returned. *)
C30_LookupOncePerKey ==
    /\ [](\A j, k \in 1..Len(lookups) :
             (j < k /\ lookups[j].key = lookups[k].key) =>
                 lookups[j].outcome = "ConnectionError")
    /\ []((op = "none") => ~zipcode.is_dirty)
    /\ [][/\ lookups' # lookups =>
               /\ Len(lookups') = Len(lookups) + 1
               /\ lookups'[Len(lookups')].key \notin cached_keys(zipcode)
          /\ (op' = "get_timezone" /\ result'.key \in cached_keys(zipcode)) =>
               /\ zipcode' = zipcode /\ zipcode_file' = zipcode_file /\ lookups' = lookups
               /\ result'.outcome = cached_timezone(zipcode, result'.key)
          /\ zipcode'.is_dirty <=>
               IF op' = "save" /\ result'.outcome = "returned" THEN FALSE
               ELSE zipcode.is_dirty \/ zipcode'.cache # zipcode.cache]_vars

\* A key whose lookup found no timezone was saved to the file and is answered
\* from the cache, after a lookup of another key
C30_Witness ==
    /\ op = "get_timezone" /\ ~result.looked_up /\ result.outcome = "None"
    /\ Len(lookups) >= 2
    /\ \E k \in 1..Len(lookups) : lookups[k] = [key |-> result.key, outcome |-> "None"]
    /\ ~zipcode.is_dirty
    /\ zipcode_file = <<pack(zipcode.cache)>>

\* What a cache file holds for the two components, None for both without file
payload_of(file) ==
    IF file = <<>> THEN [profile |-> <<>>, contacts |-> <<>>] ELSE pickle_load(file[1])

\* The components a call passes to _save_cache
passes_profile(r) == IF r.fn = "_save_cache" THEN r.profile # <<>> ELSE r.fn = "get_profile"

passes_contacts(r) == IF r.fn = "_save_cache" THEN r.contacts # <<>> ELSE r.fn = "get_contacts"

(* C29: when a call of a Contacts object writes the cache file, the component
   it does not save is in the file as it was before, the profile when contacts
   are saved and the contact list when a profile is saved, and the object's
   _cache is the payload written; the _cache of the object is at all times
   what the file holds. *)
C29_SavePreservesOther ==
    /\ [](instances[1].memo # <<>> => instances[1].memo[1] = payload_of(cache_file))
    /\ [][(\/ cache_file' # cache_file
           \/ /\ op' = "_save_cache" /\ result'.outcome = "returned"
              /\ (result'.profile # <<>> \/ result'.contacts # <<>>)) =>
             /\ ~passes_profile(result') =>
                    payload_of(cache_file').profile = payload_of(cache_file).profile
             /\ ~passes_contacts(result') =>
                    payload_of(cache_file').contacts = payload_of(cache_file).contacts
             /\ instances'[1].memo = <<payload_of(cache_file')>>]_vars

\* A profile was saved after get_contacts saved the two contacts it fetched:
\* the file holds the new profile and the two contacts
C29_Witness ==
    /\ op = "_save_cache" /\ result.outcome = "returned"
    /\ result.profile # <<>> /\ result.contacts = <<>>
    /\ result.profile[1].given_name = Amy
    /\ saved # <<>> /\ Len(saved[1].contacts) = 2
    /\ saved[1].contacts # CachedContacts
    /\ payload_of(cache_file) = [profile |-> result.profile,
                                 contacts |-> <<saved[1].contacts>>]

=============================================================================
